---- MODULE Spec2Model ----
(***************************************************************************)
(* Memory and context-management core of lightclaw (femtobot):             *)
(*   - src/src/memory/simple/file_store.rs   the sectioned MEMORY.md store *)
(*   - src/src/memory/smart/vector_store.rs  embedding cache, vector store *)
(*   - src/src/agent/mod.rs                  turns, history, summarization *)
(*                                                                         *)
(* Text is a sequence of tokens.  A token is a string that stands for a    *)
(* run of characters; TokLen gives the number of characters it stands for. *)
(* The tokens the code searches for ("\n", "## ") are tokens of their own, *)
(* so find / trim / split are computed on sequences as the code computes   *)
(* them on strings.                                                        *)
(***************************************************************************)
EXTENDS Integers, Sequences, FiniteSets, TLC

VARIABLES
    \* ---- file store (file_store.rs) ----
    memoryFile,      \* content of <workspace>/memory/MEMORY.md
    fileLock,        \* holder of MEMORY_FILE_LOCK, or NoHolder
    writer,          \* writer[w]: a thread inside one append_* call
    \* ---- embedding cache (vector_store.rs) ----
    cacheEntries,    \* EmbeddingCache.entries
    cacheCounter,    \* EmbeddingCache.counter
    cacheLast,       \* history: the last insert, with the cache before it
    \* ---- vector store (vector_store.rs) ----
    vecRows,         \* rows of table memories
    maxMemories,     \* VectorMemoryStore.max_memories
    clock,           \* Utc::now()
    nextId,          \* ids handed out (Uuid::new_v4 is fresh every time)
    evicted,         \* history: rows deleted by prune_if_needed
    lastAdd,         \* history: the last add, its result and the get after it
    \* ---- agent loop (agent/mod.rs) ----
    mode,            \* cfg.memory.mode
    pipelineOk,      \* pipeline.summarizer / pipeline.vector_store are Some
    consumed,        \* inbound messages consumed by run()
    permits,         \* free permits of the Semaphore in run()
    turn,            \* turn[i]: the task spawned for inbound message i
    sessionLock,     \* sessionLock[s]: holder of the session's history Mutex
    histories,       \* histories[s]: stored history of session s
    watermarks,      \* summary_watermarks
    sumTask,         \* sumTask[i]: the summarization task spawned by turn i
    outbound,        \* messages published to the bus
    wmLog,           \* history: every write to summary_watermarks, in order
    completion,      \* one call of prompt_with_fallback: route, attempt, errors
    lastSearch,      \* history: the last search_inner call, the rows before it
    lastUpdate,      \* one call of VectorMemoryStore::update, and what it returned
    fnCall           \* one call of a function of agent/mod.rs: arguments and result

fileVars  == <<memoryFile, fileLock, writer>>
cacheVars == <<cacheEntries, cacheCounter, cacheLast>>
vecVars   == <<vecRows, maxMemories, clock, nextId, evicted, lastAdd>>
agentVars == <<mode, pipelineOk, consumed, permits, turn, sessionLock,
               histories, watermarks, sumTask, outbound, wmLog>>
auxVars == <<completion, lastSearch, lastUpdate, fnCall>>
vars == <<fileVars, cacheVars, vecVars, agentVars, auxVars>>

(***************************************************************************)
(* Text                                                                    *)
(***************************************************************************)
NL == "\n"
SP == " "
H2 == "## "

\* characters a token stands for
TokLen(t) ==
    CASE t = NL -> 1
      [] t = SP -> 1
      [] t = H2 -> 3
      [] t = "- [today] " -> 15                \* "- [2026-11-04] "
      [] t = "Extracted Notes" -> 15
      [] t = "Remembered Facts" -> 16
      [] t = "Conversation Observations" -> 25
      [] t = "User Observations" -> 17
      [] t = "Grounded Facts" -> 14
      [] t = "huge-note" -> 9000
      [] t = "I PREFER TEA." -> 13
      [] t = "I'm ok." -> 7
      [] t = "hello" -> 5
      [] t = "ok" -> 2
      [] t = "fact-" -> 5
      [] t \in {"0", "1", "2", "3", "4", "5", "6", "7", "8", "9"} -> 1
      [] t = "fact-1" -> 6
      [] t = "fact-2" -> 6
      [] t = "fact-3" -> 6
      [] t = "fact-4" -> 6
      [] t = "Discussed the build." -> 20
      [] t = "I prefer tea." -> 13
      [] t = "I work at night." -> 16
      [] t = "I live in Oslo." -> 15
      [] t = "I want short replies." -> 21
      [] OTHER -> 10

RECURSIVE StrLen(_)
\* str::len
StrLen(s) == IF s = <<>> THEN 0 ELSE TokLen(Head(s)) + StrLen(Tail(s))

\* s[from..] (from is a 0-based offset)
From(s, from) == SubSeq(s, from + 1, Len(s))
\* s[..to]
Upto(s, to) == SubSeq(s, 1, to)

StartsWith(s, pat) == Len(pat) <= Len(s) /\ SubSeq(s, 1, Len(pat)) = pat
EndsWith(s, pat) ==
    Len(pat) <= Len(s) /\ SubSeq(s, Len(s) - Len(pat) + 1, Len(s)) = pat

NoMatch == -1
\* str::find: offset of the first occurrence of pat, or NoMatch
Find(s, pat) ==
    LET hits == {i \in 0..(Len(s) - Len(pat)) : StartsWith(From(s, i), pat)}
    IN  IF hits = {} THEN NoMatch
        ELSE CHOOSE i \in hits : \A j \in hits : i <= j

RECURSIVE TrimStartNL(_)
\* str::trim_start_matches('\n')
TrimStartNL(s) == IF s # <<>> /\ Head(s) = NL THEN TrimStartNL(Tail(s)) ELSE s

IsSpace(t) == t \in {NL, SP}
RECURSIVE TrimStart(_)
TrimStart(s) == IF s # <<>> /\ IsSpace(Head(s)) THEN TrimStart(Tail(s)) ELSE s
RECURSIVE TrimEnd(_)
TrimEnd(s) ==
    IF s # <<>> /\ IsSpace(s[Len(s)]) THEN TrimEnd(Upto(s, Len(s) - 1)) ELSE s
\* str::trim
Trim(s) == TrimEnd(TrimStart(s))

RECURSIVE Join(_, _)
\* [String]::join(sep)
Join(parts, sep) ==
    IF parts = <<>> THEN <<>>
    ELSE IF Len(parts) = 1 THEN parts[1]
    ELSE parts[1] \o sep \o Join(Tail(parts), sep)

RECURSIVE Lines(_)
\* str::lines (a final "\n" ends the last line and opens no new one)
Lines(s) ==
    IF s = <<>> THEN <<>>
    ELSE LET p == Find(s, <<NL>>)
         IN  IF p = NoMatch THEN <<s>>
             ELSE <<Upto(s, p)>> \o Lines(From(s, p + 1))

(***************************************************************************)
(* File memory store: file_store.rs                                        *)
(***************************************************************************)
MAX_EXTRACTED_NOTES_CHARS == 8000
EXTRACTED_SECTION_HEADER == <<H2, "Extracted Notes">>
REMEMBERED_FACTS_SECTION_HEADER == <<H2, "Remembered Facts">>
CONVERSATION_OBSERVATIONS_SECTION_HEADER == <<H2, "Conversation Observations">>
USER_OBSERVATIONS_SECTION_HEADER == <<H2, "User Observations">>
GROUNDED_FACTS_SECTION_HEADER == <<H2, "Grounded Facts">>

\* threads that call the append_* wrappers at the same time
NumWriters == 3

\* "- [{today}] {text}"
DatedBullet(text) == <<"- [today] ">> \o text

RECURSIVE TrimToLimit(_, _)
\* the while loop of append_section_entries: drop first lines while too long
TrimToLimit(combined, limit) ==
    IF StrLen(combined) > limit
    THEN LET newline_pos == Find(combined, <<NL>>)
         IN  IF newline_pos # NoMatch
             THEN TrimToLimit(From(combined, newline_pos + 1), limit)
             ELSE combined
    ELSE combined

\* the value append_section_entries writes, computed from the content
\* it read; entries is a non-empty sequence of lines, max_section_chars an
\* Option (<<>> is None, <<n>> is Some(n))
UpdatedContent(existing, section_header, entries, max_section_chars) ==
    LET new_lines == Join(entries, <<NL>>)
        section_start == Find(existing, section_header)
    IN  IF section_start # NoMatch
        THEN LET after_header == section_start + Len(section_header)
                 before == Upto(existing, after_header)
                 rest == From(existing, after_header)
                 nextSec == Find(rest, <<NL, H2>>)
                 section_end == IF nextSec = NoMatch THEN Len(rest) ELSE nextSec
                 section_body == TrimStartNL(Upto(rest, section_end))
                 after_section == From(rest, section_end)
                 combined0 == IF section_body = <<>> THEN new_lines
                              ELSE section_body \o <<NL>> \o new_lines
                 combined == IF max_section_chars # <<>>
                             THEN TrimToLimit(combined0, max_section_chars[1])
                             ELSE combined0
             IN  before \o <<NL>> \o combined \o after_section
        ELSE LET content == IF existing # <<>> /\ ~EndsWith(existing, <<NL>>)
                            THEN existing \o <<NL>> ELSE existing
             IN  content \o <<NL>> \o section_header \o <<NL>> \o new_lines \o <<NL>>

\* the body of a section as append_section_entries delimits it: from the
\* header to the next "\n## " or the end of the file
SectionBody(file, section_header) ==
    LET section_start == Find(file, section_header)
        rest == From(file, section_start + Len(section_header))
        nextSec == Find(rest, <<NL, H2>>)
    IN  IF section_start = NoMatch THEN <<>>
        ELSE TrimStartNL(Upto(rest, IF nextSec = NoMatch THEN Len(rest) ELSE nextSec))

\* MEMORY_FILE_LOCK: <<>> when free, <<w>> when thread w holds the guard
NoHolder == <<>>
Writers == 1..NumWriters

\* the facts the writers pass: writer w passes "fact-w", as the stress test does
WriterFact(w) == <<"fact-", ToString(w)>>

\* the append_* wrappers: the header, the entries and the limit each passes to
\* append_section_entries; entries = <<>> when the wrapper returns early
AppendCall(helper, text) ==
    CASE helper = "extracted_facts" ->
            [header |-> EXTRACTED_SECTION_HEADER,
             entries |-> <<DatedBullet(text)>>,
             limit |-> <<MAX_EXTRACTED_NOTES_CHARS>>]
      [] helper = "remembered_fact" ->
            [header |-> REMEMBERED_FACTS_SECTION_HEADER,
             entries |-> IF Trim(text) = <<>> THEN <<>> ELSE <<DatedBullet(Trim(text))>>,
             limit |-> <<>>]
      [] helper = "conversation_observation" ->
            [header |-> CONVERSATION_OBSERVATIONS_SECTION_HEADER,
             entries |-> IF Trim(text) = <<>> THEN <<>> ELSE <<DatedBullet(Trim(text))>>,
             limit |-> <<>>]
      [] helper = "user_observation" ->
            [header |-> USER_OBSERVATIONS_SECTION_HEADER,
             entries |-> IF Trim(text) = <<>> THEN <<>> ELSE <<DatedBullet(Trim(text))>>,
             limit |-> <<>>]

\* MEMORY.md after one whole append_section_entries call on content `file`
AppendSectionEntries_SkipKnown(file, call) ==
    IF call.entries = <<>> \/ Find(file, call.entries[1]) # NoMatch THEN file
    ELSE UpdatedContent(file, call.header, call.entries, call.limit)
AppendSectionEntries(file, call) ==
    IF call.entries = <<>> THEN file
    ELSE UpdatedContent(file, call.header, call.entries, call.limit)

\* MEMORY.md files the program leaves behind: none yet, one section, two
InitFiles ==
    LET f1 == AppendSectionEntries(<<>>, AppendCall("extracted_facts", <<"fact-", "0">>))
        f2 == AppendSectionEntries(f1, AppendCall("user_observation", <<"I prefer tea.">>))
    IN  {<<>>, f1, f2}

WriterHelpers == {"extracted_facts", "user_observation"}

WriterIdle ==
    [pc |-> "idle", call |-> [header |-> <<>>, entries |-> <<>>, limit |-> <<>>],
     existing |-> <<>>]

FileInit ==
    /\ memoryFile \in InitFiles
    /\ fileLock = NoHolder
    /\ writer = [w \in Writers |-> WriterIdle]

\* MEMORY_FILE_LOCK.lock(): the Mutex is granted only when nobody holds it
CanLock_NoExclusion(lock) == TRUE
CanLock(lock) == lock = NoHolder

\* a thread enters an append_* wrapper with its fact
FCall(w, helper) ==
    /\ writer[w].pc = "idle"
    /\ LET call == AppendCall(helper, WriterFact(w))
       IN  writer' = [writer EXCEPT ![w].call = call,
                          ![w].pc = IF call.entries = <<>> THEN "done" ELSE "lock"]
    /\ UNCHANGED <<memoryFile, fileLock>>
    /\ UNCHANGED <<cacheVars, vecVars, agentVars>>
    /\ UNCHANGED auxVars

FLock(w) ==
    /\ writer[w].pc = "lock"
    /\ CanLock(fileLock)
    /\ fileLock' = <<w>>
    /\ writer' = [writer EXCEPT ![w].pc = "read"]
    /\ UNCHANGED memoryFile
    /\ UNCHANGED <<cacheVars, vecVars, agentVars>>
    /\ UNCHANGED auxVars

\* fs::read_to_string(&self.memory_file).unwrap_or_default()
FRead(w) ==
    /\ writer[w].pc = "read"
    /\ writer' = [writer EXCEPT ![w].existing = memoryFile, ![w].pc = "write"]
    /\ UNCHANGED <<memoryFile, fileLock>>
    /\ UNCHANGED <<cacheVars, vecVars, agentVars>>
    /\ UNCHANGED auxVars

\* fs::File::create + write_all(updated)
FWrite(w) ==
    /\ writer[w].pc = "write"
    /\ memoryFile' = AppendSectionEntries(writer[w].existing, writer[w].call)
    /\ writer' = [writer EXCEPT ![w].pc = "unlock"]
    /\ UNCHANGED fileLock
    /\ UNCHANGED <<cacheVars, vecVars, agentVars>>
    /\ UNCHANGED auxVars

\* _guard dropped at the end of append_section_entries
FUnlock(w) ==
    /\ writer[w].pc = "unlock"
    /\ fileLock' = NoHolder
    /\ writer' = [writer EXCEPT ![w].pc = "done"]
    /\ UNCHANGED memoryFile
    /\ UNCHANGED <<cacheVars, vecVars, agentVars>>
    /\ UNCHANGED auxVars

FileNext ==
    \E w \in Writers :
        \/ \E helper \in WriterHelpers : FCall(w, helper)
        \/ FLock(w)
        \/ FRead(w)
        \/ FWrite(w)
        \/ FUnlock(w)

\* texts given to the append_* wrappers: a short fact, a single line longer
\* than MAX_EXTRACTED_NOTES_CHARS, the same line ended by a newline, a line
\* that quotes a section heading
DocTexts ==
    {<<"fact-", "1">>, <<"huge-note">>, <<"huge-note", NL>>,
     <<"I prefer ", H2, "Extracted Notes">>}

\* a thread enters an append_* wrapper with any text
FCallText(w, helper, text) ==
    /\ writer[w].pc = "idle"
    /\ LET call == AppendCall(helper, text)
       IN  writer' = [writer EXCEPT ![w].call = call,
                          ![w].pc = IF call.entries = <<>> THEN "done" ELSE "lock"]
    /\ UNCHANGED <<memoryFile, fileLock>>
    /\ UNCHANGED <<cacheVars, vecVars, agentVars>>
    /\ UNCHANGED auxVars

DocNext ==
    \/ \E w \in Writers, helper \in WriterHelpers, text \in DocTexts :
          FCallText(w, helper, text)
    \/ \E w \in Writers : FLock(w)
    \/ \E w \in Writers : FRead(w)
    \/ \E w \in Writers : FWrite(w)
    \/ \E w \in Writers : FUnlock(w)

(***************************************************************************)
(* Embedding cache: vector_store.rs                                        *)
(***************************************************************************)
MAX_CACHE_ENTRIES == 512

\* inserts explored after the initial cache
MaxCacheInserts == 3

\* the vector the embedding client returns for a text
EmbeddingOf(key) == <<"vec", key>>

\* EmbeddingCache.entries is the set of its (key, CacheEntry) pairs, each a
\* record [key, embedding, insert_order]; a key occurs in at most one
NoEntries == {}

CacheLen(entries) == Cardinality(entries)
CacheKeysOf(entries) == {e.key : e \in entries}

\* EmbeddingCache::evict_oldest_quarter
EvictNewestQuarter(entries) ==
    LET to_remove == CacheLen(entries) \div 4
    IN  IF to_remove = 0 THEN NoEntries
        ELSE {e \in entries :
                Cardinality({f \in entries : f.insert_order > e.insert_order})
                    >= to_remove}
EvictOldestQuarter(entries) ==
    LET to_remove == CacheLen(entries) \div 4
    IN  IF to_remove = 0 THEN NoEntries
        \* by_age sorted by insert_order; the first to_remove keys are removed
        ELSE {e \in entries :
                Cardinality({f \in entries : f.insert_order < e.insert_order})
                    >= to_remove}

\* the test `self.entries.len() >= MAX_CACHE_ENTRIES` of insert
AtCapacity_OffByOne(n) == n > MAX_CACHE_ENTRIES
AtCapacity(n) == n >= MAX_CACHE_ENTRIES

\* HashMap::insert: the pair of this key, if any, is replaced
MapInsert(entries, entry) == {e \in entries : e.key # entry.key} \cup {entry}

\* EmbeddingCache::insert: the entries after insert(key, embedding), where
\* counter is the counter before the call
CacheInsert(entries, counter, key, embedding) ==
    MapInsert(IF AtCapacity(CacheLen(entries)) THEN EvictOldestQuarter(entries)
              ELSE entries,
              [key |-> key, embedding |-> embedding, insert_order |-> counter + 1])

\* the i-th distinct text given to embed
CacheText(i) == <<ToString(i)>>

\* the cache after n inserts of the distinct texts CacheText(1..n)
FilledCache(n) ==
    {[key |-> CacheText(i), embedding |-> EmbeddingOf(CacheText(i)), insert_order |-> i] :
        i \in 1..n}

\* sizes of the initial cache: empty, one below capacity, at capacity
CachePrefills == {0, MAX_CACHE_ENTRIES - 1, MAX_CACHE_ENTRIES}

\* texts embedded: the oldest, the last of the oldest quarter, the first after
\* it, the newest of a full cache, and texts never seen
CacheKeys ==
    {CacheText(i) : i \in
        {1, MAX_CACHE_ENTRIES \div 4, MAX_CACHE_ENTRIES \div 4 + 1, MAX_CACHE_ENTRIES,
         MAX_CACHE_ENTRIES + 1, MAX_CACHE_ENTRIES + 2, MAX_CACHE_ENTRIES + 3}}

NoKey == <<>>

CacheInit ==
    /\ \E n \in CachePrefills :
        /\ cacheEntries = FilledCache(n)
        /\ cacheCounter = n
    /\ cacheLast = [key |-> NoKey, before |-> NoEntries, start |-> cacheCounter]

\* cache.insert(text, embedding) at the end of EmbeddingService::embed
CacheInsertStep(key) ==
    /\ cacheCounter < cacheLast.start + MaxCacheInserts
    /\ cacheEntries' = CacheInsert(cacheEntries, cacheCounter, key, EmbeddingOf(key))
    /\ cacheCounter' = cacheCounter + 1
    /\ cacheLast' = [cacheLast EXCEPT !.key = key, !.before = cacheEntries]
    /\ UNCHANGED <<fileVars, vecVars, agentVars>>
    /\ UNCHANGED auxVars

CacheNext == \E key \in CacheKeys : CacheInsertStep(key)

\* EmbeddingService::embed on a cache with these entries and this counter;
\* clientOk: the embedding client answers.  The result, and the cache after.
Embed(entries, counter, text, clientOk) ==
    IF Trim(text) = <<>>
    THEN [ok |-> FALSE, embedding |-> <<>>, entries |-> entries, counter |-> counter]
    ELSE IF text \in CacheKeysOf(entries)
    THEN [ok |-> TRUE, embedding |-> (CHOOSE e \in entries : e.key = text).embedding,
          entries |-> entries, counter |-> counter]
    ELSE IF clientOk
    THEN [ok |-> TRUE, embedding |-> EmbeddingOf(text),
          entries |-> CacheInsert(entries, counter, text, EmbeddingOf(text)),
          counter |-> counter + 1]
    ELSE [ok |-> FALSE, embedding |-> <<>>, entries |-> entries, counter |-> counter]

(***************************************************************************)
(* Vector memory store: vector_store.rs                                    *)
(* A string that is a key (namespace, session key) is a sequence of        *)
(* one-character strings.  Priorities are in hundredths, importance in     *)
(* tenths.  An Option is a sequence: <<>> is None / Err, <<x>> is Some(x). *)
(***************************************************************************)
MAX_CONTENT_LENGTH == 8192
NAMESPACE_MAX_LEN == 64

\* most rows a store is configured to keep in the runs explored
MaxMaxMemories == 2
\* adds explored
MaxAdds == 3
\* instants Utc::now() takes
MaxClock == 2

AsciiAlphanumeric ==
    {"a", "b", "c", "d", "e", "f", "g", "l", "t", "u", "A", "Z", "0", "1", "2", "4", "9"}
IsNamespaceChar(c) == c \in AsciiAlphanumeric \cup {"_", "-"}

\* validate_namespace: <<ns>> or <<>> (Err)
ValidateNamespace(namespace) ==
    IF /\ Len(namespace) >= 1
       /\ Len(namespace) <= NAMESPACE_MAX_LEN
       /\ \A i \in 1..Len(namespace) : IsNamespaceChar(namespace[i])
    THEN <<namespace>>
    ELSE LET sanitized == [i \in 1..Len(namespace) |->
                            IF IsNamespaceChar(namespace[i]) THEN namespace[i] ELSE "_"]
             trimmed == IF Len(sanitized) > NAMESPACE_MAX_LEN
                        THEN SubSeq(sanitized, 1, NAMESPACE_MAX_LEN) ELSE sanitized
         IN  IF trimmed = <<>> THEN <<>> ELSE <<trimmed>>

Clamp(x, lo, hi) == IF x < lo THEN lo ELSE IF x > hi THEN hi ELSE x

\* metadata.get("importance").and_then(as_f64).unwrap_or(0.5), in tenths
Importance(metadata) ==
    IF metadata.importance = <<>> THEN 5 ELSE metadata.importance[1]

\* add: (importance * 0.4 + 0.3).clamp(0.0, 1.0), in hundredths
InitialPriority_Fixed(metadata) == Clamp(5 * 4 + 30, 0, 100)
InitialPriority(metadata) == Clamp(Importance(metadata) * 4 + 30, 0, 100)

\* WHERE namespace = ?
RowsOf_AnyNamespace(rows, ns) == rows
RowsOf(rows, ns) == {r \in rows : r.namespace = ns}

\* ORDER BY priority, updated_at: a sorts strictly before b
RowLower(a, b) ==
    \/ a.priority < b.priority
    \/ a.priority = b.priority /\ a.updated_at < b.updated_at

\* prune_if_needed: the sets of rows it may delete (rows that tie in
\* (priority, updated_at) come out of the SELECT in either order)
PruneSets_Desc(rows, namespace, max_memories) ==
    LET inNs == RowsOf(rows, namespace)
        count == Cardinality(inNs)
    IN  IF count > max_memories
        THEN LET excess == count - max_memories
             IN  {D \in SUBSET inNs :
                    /\ Cardinality(D) = excess
                    /\ \A d \in D : \A r \in inNs \ D : ~RowLower(d, r)}
        ELSE {{}}
PruneSets(rows, namespace, max_memories) ==
    LET inNs == RowsOf(rows, namespace)
        count == Cardinality(inNs)
    IN  IF count > max_memories
        THEN LET excess == count - max_memories
             IN  {D \in SUBSET inNs :
                    /\ Cardinality(D) = excess
                    /\ \A d \in D : \A r \in inNs \ D : ~RowLower(r, d)}
        ELSE {{}}

\* VectorMemoryStore::get: <<row>> or <<>>
VecGet(rows, memory_id, namespace) ==
    LET ns == ValidateNamespace(namespace)
        hit == IF ns = <<>> THEN {}
               ELSE {r \in rows : r.id = memory_id /\ r.namespace = ns[1]}
    IN  IF hit = {} THEN <<>> ELSE <<CHOOSE r \in hit : TRUE>>

NsA == <<"a", "1">>
NsB == <<"b", ":", "1">>     \* sanitized to b_1
VecNamespaces == {NsA, NsB}
VecContents == {<<SP, "fact-1", NL>>, <<SP>>, <<"huge-note">>}
VecMetadatas == {[importance |-> <<>>], [importance |-> <<1>>], [importance |-> <<30>>]}

\* precomputed_embedding (an Option) and whether the embedding client answers
EmbeddingInputs ==
    {[pre |-> <<>>, clientOk |-> TRUE], [pre |-> <<>>, clientOk |-> FALSE],
     [pre |-> <<"precomputed">>, clientOk |-> TRUE]}

Row(id, content, embedding, metadata, now, priority, namespace) ==
    [id |-> id, content |-> content, embedding |-> embedding, metadata |-> metadata,
     created_at |-> now, updated_at |-> now, access_count |-> 0,
     priority |-> priority, namespace |-> namespace]

\* what a store holds when it is opened: nothing, or rows an earlier run with
\* a larger max_memories left in namespace a1
VecInitRows ==
    {{},
     {Row(-1, <<"fact-3">>, EmbeddingOf(<<"fact-3">>), [importance |-> <<1>>], 0, 34, NsA),
      Row(-2, <<"fact-4">>, EmbeddingOf(<<"fact-4">>), [importance |-> <<9>>], 0, 66, NsA)}}

NoAdd ==
    [pc |-> "idle", result |-> "none", item |-> <<>>, namespace |-> <<>>,
     got |-> <<>>, countBefore |-> 0, deleted |-> {}]

VecInit ==
    /\ vecRows \in VecInitRows
    /\ maxMemories \in 0..MaxMaxMemories
    /\ clock = 1
    /\ nextId = 1
    /\ evicted = {}
    /\ lastAdd = NoAdd

\* add, up to the database call: validation, namespace, embedding, priority.
\* pre: precomputed_embedding; clientOk: the embedding client answers.
VecAddBegin(content, metadata, namespace, pre, clientOk) ==
    /\ lastAdd.pc \in {"idle", "returned", "got"}
    /\ nextId <= MaxAdds
    /\ LET trimmed == Trim(content)
           ns == ValidateNamespace(namespace)
           e == IF pre # <<>> THEN [ok |-> TRUE, embedding |-> pre,
                                    entries |-> cacheEntries, counter |-> cacheCounter]
                ELSE Embed(cacheEntries, cacheCounter, trimmed, clientOk)
           failed == [NoAdd EXCEPT !.pc = "returned", !.result = "Err"]
       IN  IF trimmed = <<>> \/ StrLen(trimmed) > MAX_CONTENT_LENGTH \/ ns = <<>>
           THEN /\ lastAdd' = failed
                /\ UNCHANGED <<cacheEntries, cacheCounter, nextId>>
           ELSE /\ cacheEntries' = e.entries
                /\ cacheCounter' = e.counter
                /\ IF e.ok
                   THEN /\ lastAdd' = [NoAdd EXCEPT !.pc = "db", !.namespace = ns[1],
                              !.item = <<Row(nextId, trimmed, e.embedding, metadata, clock,
                                             InitialPriority(metadata), ns[1])>>]
                        /\ nextId' = nextId + 1
                   ELSE /\ lastAdd' = failed
                        /\ UNCHANGED nextId
    /\ UNCHANGED <<vecRows, maxMemories, clock, evicted, cacheLast>>
    /\ UNCHANGED <<fileVars, agentVars>>
    /\ UNCHANGED auxVars

\* add, the with_conn closure: INSERT, then prune_if_needed
VecAddDb ==
    /\ lastAdd.pc = "db"
    /\ LET item == lastAdd.item[1]
           inserted == vecRows \cup {item}
       IN  \E D \in PruneSets(inserted, item.namespace, maxMemories) :
              /\ vecRows' = inserted \ D
              /\ evicted' = evicted \cup D
              /\ lastAdd' = [lastAdd EXCEPT !.pc = "returned", !.result = "Ok",
                    !.countBefore = Cardinality(RowsOf(vecRows, item.namespace)),
                    !.deleted = D]
    /\ UNCHANGED <<maxMemories, clock, nextId, cacheVars>>
    /\ UNCHANGED <<fileVars, agentVars>>
    /\ UNCHANGED auxVars

\* get(item.id, namespace) right after add returned Ok(item)
VecGetAfterAdd ==
    /\ lastAdd.pc = "returned"
    /\ lastAdd.result = "Ok"
    /\ lastAdd' = [lastAdd EXCEPT !.pc = "got",
                      !.got = VecGet(vecRows, lastAdd.item[1].id, lastAdd.namespace)]
    /\ UNCHANGED <<vecRows, maxMemories, clock, nextId, evicted, cacheVars>>
    /\ UNCHANGED <<fileVars, agentVars>>
    /\ UNCHANGED auxVars

\* time passes between two calls
Tick ==
    /\ clock < MaxClock
    /\ lastAdd.pc # "db"
    /\ clock' = clock + 1
    /\ UNCHANGED <<vecRows, maxMemories, nextId, evicted, lastAdd, cacheVars>>
    /\ UNCHANGED <<fileVars, agentVars>>
    /\ UNCHANGED auxVars

VecNext ==
    \/ \E content \in VecContents, metadata \in VecMetadatas, namespace \in VecNamespaces,
          how \in EmbeddingInputs :
            VecAddBegin(content, metadata, namespace, how.pre, how.clientOk)
    \/ VecAddDb
    \/ VecGetAfterAdd
    \/ Tick

\* the statements of the with_conn closure of add at which the database may
\* return an error
DbErrorStages == {"insert", "count", "select", "delete"}

\* add, the with_conn closure when the statement at stage returns an error.
\* The statements run on the connection one by one, with no transaction
\* around them: what ran before the failing one stays.
VecAddDbErr(stage) ==
    /\ lastAdd.pc = "db"
    /\ LET item == lastAdd.item[1]
           inserted == vecRows \cup {item}
           failed == [lastAdd EXCEPT !.pc = "returned", !.result = "Err"]
       IN  CASE stage = "insert" ->
                  /\ vecRows' = vecRows
                  /\ lastAdd' = failed
                  /\ UNCHANGED evicted
             [] stage \in {"count", "select"} ->
                  /\ vecRows' = inserted
                  /\ lastAdd' = failed
                  /\ UNCHANGED evicted
             [] OTHER ->
                  \* one of the DELETEs fails, after those of the ids before it
                  \E D \in PruneSets(inserted, item.namespace, maxMemories) :
                    \E P \in SUBSET D :
                      /\ P # D
                      /\ \A p \in P : \A d \in D \ P : ~RowLower(d, p)
                      /\ vecRows' = inserted \ P
                      /\ evicted' = evicted \cup P
                      /\ lastAdd' = [failed EXCEPT !.deleted = P]
    /\ UNCHANGED <<maxMemories, clock, nextId, cacheVars>>
    /\ UNCHANGED <<fileVars, agentVars>>
    /\ UNCHANGED auxVars

\* adds on a database that may return errors
AddFaultNext ==
    \/ \E content \in VecContents, metadata \in VecMetadatas, namespace \in VecNamespaces,
          how \in EmbeddingInputs :
            VecAddBegin(content, metadata, namespace, how.pre, how.clientOk)
    \/ VecAddDb
    \/ \E stage \in DbErrorStages : VecAddDbErr(stage)
    \/ VecGetAfterAdd
    \/ Tick

\* cosine_similarity of two embeddings, in hundredths.  Embeddings are what
\* the client returned for a text: equal texts give equal vectors, and the
\* vectors of two different texts are taken to be at an angle of similarity 0.2
CosineSimilarity(a, b) ==
    IF a = <<>> \/ b = <<>> THEN 0 ELSE IF a = b THEN 100 ELSE 20

MAX_SEARCH_ROWS == 500

\* ORDER BY priority DESC, updated_at DESC: a comes strictly before b
RowBefore(a, b) == RowLower(b, a)

\* the SELECT of search_inner: the sets of rows it may load, the first
\* MAX_SEARCH_ROWS of the namespace in ORDER BY order (rows that tie in
\* (priority, updated_at) at the cut may fall on either side of it)
SelectRows_NoLimit(rows, namespace) == {RowsOf(rows, namespace)}
SelectRows(rows, namespace) ==
    LET inNs == RowsOf(rows, namespace)
    IN  IF Cardinality(inNs) <= MAX_SEARCH_ROWS THEN {inNs}
        ELSE LET sure == {r \in inNs :
                            Cardinality({q \in inNs \ {r} : ~RowBefore(r, q)})
                                < MAX_SEARCH_ROWS}
                 maybe == {r \in inNs \ sure :
                            Cardinality({q \in inNs : RowBefore(q, r)}) < MAX_SEARCH_ROWS}
             IN  {sure \cup T : T \in {U \in SUBSET maybe :
                                         Cardinality(U) = MAX_SEARCH_ROWS - Cardinality(sure)}}

\* search_inner: the sets of rows it may return (rows that tie in the combined
\* score may fall on either side of the cut).  threshold is in hundredths,
\* priority_weight in tenths, the combined score in thousandths.
SearchSets(rows, query_embedding, top_k, threshold, namespace, priority_weight) ==
    LET Combined(r) == CosineSimilarity(query_embedding, r.embedding) * (10 - priority_weight)
                       + r.priority * priority_weight
    IN  UNION {LET hits == {r \in loaded :
                              CosineSimilarity(query_embedding, r.embedding) >= threshold}
                   n == IF Cardinality(hits) < top_k THEN Cardinality(hits) ELSE top_k
               IN  {R \in SUBSET hits :
                      /\ Cardinality(R) = n
                      /\ \A r \in R : \A h \in hits \ R : Combined(r) >= Combined(h)} :
               loaded \in SelectRows(rows, namespace)}

\* the UPDATE of search_inner: access_count + 1 for every returned row
BumpAccess_All(rows, returned) ==
    {[r EXCEPT !.access_count = r.access_count + 1] : r \in rows}
BumpAccess(rows, returned) ==
    {IF r \in returned THEN [r EXCEPT !.access_count = r.access_count + 1] ELSE r :
        r \in rows}

\* combined = similarity * (1 - priority_weight) + priority * priority_weight
CombinedScore(query_embedding, r, priority_weight) ==
    CosineSimilarity(query_embedding, r.embedding) * (10 - priority_weight)
        + r.priority * priority_weight

Range(seq) == {seq[k] : k \in 1..Len(seq)}

\* search_inner: the vectors it may return, the rows of one of SearchSets
\* after results.sort_by(combined, descending)
SearchSeqs(rows, query_embedding, top_k, threshold, namespace, priority_weight) ==
    UNION {{res \in [1..Cardinality(R) -> R] :
              \A i \in 1..Cardinality(R) : \A j \in 1..Cardinality(R) :
                  i < j => /\ res[i] # res[j]
                           /\ CombinedScore(query_embedding, res[i], priority_weight)
                                 >= CombinedScore(query_embedding, res[j], priority_weight)} :
           R \in SearchSets(rows, query_embedding, top_k, threshold, namespace,
                            priority_weight)}

\* searches explored
MaxSearches == 2
SearchQueries == {<<"fact-1">>, <<"fact-9">>, <<SP>>}
SearchTopKs == {1, 2}
SearchThresholds == {0, 50}
SearchWeights == {0, 3, 10}

\* the memories of a store that has been in use: three of namespace a1, one
\* of namespace b_1
SearchInitRows ==
    {Row(-1, <<"fact-1">>, EmbeddingOf(<<"fact-1">>), [importance |-> <<1>>], 0, 34, NsA),
     Row(-2, <<"fact-2">>, EmbeddingOf(<<"fact-2">>), [importance |-> <<9>>], 0, 66, NsA),
     Row(-3, <<"fact-3">>, EmbeddingOf(<<"fact-3">>), [importance |-> <<1>>], 0, 34, NsA),
     Row(-4, <<"fact-1">>, EmbeddingOf(<<"fact-1">>), [importance |-> <<5>>], 0, 50,
         <<"b", "_", "1">>)}

NoSearch ==
    [count |-> 0, ok |-> FALSE, before |-> {}, result |-> <<>>, query_embedding |-> <<>>,
     top_k |-> 0, threshold |-> 0, namespace |-> <<>>, priority_weight |-> 0]

\* no update call has been made
NoUpdate ==
    [pc |-> "idle", count |-> 0, memory_id |-> 0, namespace |-> <<>>, existing |-> <<>>,
     item |-> <<>>, result |-> "none"]

SearchInit ==
    /\ vecRows = SearchInitRows
    /\ maxMemories = MaxMaxMemories
    /\ clock = 1
    /\ nextId = 1
    /\ evicted = {}
    /\ lastAdd = NoAdd
    /\ lastSearch = NoSearch

\* search(query, top_k, threshold, Some(namespace), priority_weight):
\* validate_namespace, embed, search_inner with its UPDATEs
VecSearch(query, top_k, threshold, namespace, priority_weight, clientOk) ==
    /\ lastSearch.count < MaxSearches
    /\ LET ns == ValidateNamespace(namespace)
           e == IF ns = <<>>
                THEN [ok |-> FALSE, embedding |-> <<>>,
                      entries |-> cacheEntries, counter |-> cacheCounter]
                ELSE Embed(cacheEntries, cacheCounter, query, clientOk)
           call == [NoSearch EXCEPT !.count = lastSearch.count + 1, !.before = vecRows,
                                    !.top_k = top_k, !.threshold = threshold,
                                    !.priority_weight = priority_weight]
       IN  /\ cacheEntries' = e.entries
           /\ cacheCounter' = e.counter
           /\ IF e.ok
              THEN \E res \in SearchSeqs(vecRows, e.embedding, top_k, threshold, ns[1],
                                         priority_weight) :
                      /\ vecRows' = BumpAccess(vecRows, Range(res))
                      /\ lastSearch' = [call EXCEPT !.ok = TRUE, !.result = res,
                                           !.query_embedding = e.embedding,
                                           !.namespace = ns[1]]
              ELSE /\ vecRows' = vecRows
                   /\ lastSearch' = call
    /\ UNCHANGED <<maxMemories, clock, nextId, evicted, lastAdd, cacheLast, completion,
                   lastUpdate, fnCall>>
    /\ UNCHANGED <<fileVars, agentVars>>

SearchNext ==
    \E query \in SearchQueries, top_k \in SearchTopKs, threshold \in SearchThresholds,
       namespace \in VecNamespaces, priority_weight \in SearchWeights, clientOk \in BOOLEAN :
        VecSearch(query, top_k, threshold, namespace, priority_weight, clientOk)

\* searches of a namespace that holds more rows than a search loads
LimitFillers == MAX_SEARCH_ROWS - 2
LimitTopKs == {1, 3}
LimitWeights == {0, 10}

\* the namespace a1 of a store opened with max_memories above MAX_SEARCH_ROWS:
\* LimitFillers rows of high priority, three rows of content fact-1 that tie
\* for the two places left, and a row of content fact-1 below them all
LimitInitRows ==
    {Row(-(10 + k), <<"filler", ToString(k)>>, EmbeddingOf(<<"filler", ToString(k)>>),
         [importance |-> <<9>>], 0, 66, NsA) : k \in 1..LimitFillers}
      \cup {Row(-k, <<"fact-1">>, EmbeddingOf(<<"fact-1">>), [importance |-> <<5>>], 0, 50,
                NsA) : k \in 1..3}
      \cup {Row(-4, <<"fact-1">>, EmbeddingOf(<<"fact-1">>), [importance |-> <<1>>], 0, 34,
                NsA)}

LimitInit ==
    /\ vecRows = LimitInitRows
    /\ maxMemories = MAX_SEARCH_ROWS + 2
    /\ clock = 1
    /\ nextId = 1
    /\ evicted = {}
    /\ lastAdd = NoAdd
    /\ lastSearch = NoSearch

LimitNext ==
    \E query \in {<<"fact-1">>, <<"filler", "1">>}, top_k \in LimitTopKs,
       priority_weight \in LimitWeights, clientOk \in BOOLEAN :
        VecSearch(query, top_k, 50, NsA, priority_weight, clientOk)

\* floor(sqrt(n)), n >= 0
Isqrt(n) == CHOOSE k \in 0..n : k * k <= n /\ (k + 1) * (k + 1) > n

\* update: (importance * 0.4 + recency * 0.3 + access_score * 0.3).clamp(0.0, 1.0)
\* in hundredths, rounded down; recency = (1 - age_days / 30).clamp(0, 1) and
\* access_score = (sqrt(access_count) / 10).clamp(0, 1).  An instant of the
\* clock is a day.
UpdatedPriority(metadata, existing, now) ==
    LET age_days == now - existing.created_at
        recency == Clamp(100 - (age_days * 100) \div 30, 0, 100)
        access_score == Clamp(Isqrt(existing.access_count * 100), 0, 100)
    IN  Clamp((Importance(metadata) * 40 + recency * 3 + access_score * 3) \div 10, 0, 100)

\* updates explored
MaxUpdates == 2

\* ids update and delete are called with: two stored rows and an id no row has
UpdateIds == {-1, -2, 0}

\* a store in use: row -1 in namespace a1, row -2 in namespace b_1
UpdateInitRows ==
    {Row(-1, <<"fact-1">>, EmbeddingOf(<<"fact-1">>), [importance |-> <<1>>], 0, 34, NsA),
     Row(-2, <<"fact-2">>, EmbeddingOf(<<"fact-2">>), [importance |-> <<9>>], 0, 66,
         <<"b", "_", "1">>)}

UpdateInit ==
    /\ vecRows = UpdateInitRows
    /\ maxMemories = MaxMaxMemories
    /\ clock = 1
    /\ nextId = 1
    /\ evicted = {}
    /\ lastAdd = NoAdd
    /\ lastUpdate = NoUpdate

\* update, up to its with_conn closure: validation, get, embedding, priority
VecUpdateBegin(memory_id, content, metadata, namespace, pre, clientOk) ==
    /\ lastUpdate.pc \in {"idle", "returned"}
    /\ lastUpdate.count < MaxUpdates
    /\ LET trimmed == Trim(content)
           ns == ValidateNamespace(namespace)
           call == [NoUpdate EXCEPT !.memory_id = memory_id,
                                    !.count = lastUpdate.count + 1]
           failed == [call EXCEPT !.pc = "returned", !.result = "Err"]
       IN  IF trimmed = <<>> \/ StrLen(trimmed) > MAX_CONTENT_LENGTH \/ ns = <<>>
           THEN /\ lastUpdate' = failed
                /\ UNCHANGED <<cacheEntries, cacheCounter>>
           ELSE LET existing == VecGet(vecRows, memory_id, ns[1])
                    e == IF pre # <<>> \/ existing = <<>>
                         THEN [ok |-> TRUE, embedding |-> pre,
                               entries |-> cacheEntries, counter |-> cacheCounter]
                         ELSE IF trimmed = existing[1].content
                         THEN [ok |-> TRUE, embedding |-> existing[1].embedding,
                               entries |-> cacheEntries, counter |-> cacheCounter]
                         ELSE Embed(cacheEntries, cacheCounter, trimmed, clientOk)
                IN  /\ cacheEntries' = e.entries
                    /\ cacheCounter' = e.counter
                    /\ lastUpdate' =
                         IF existing = <<>>
                         THEN [call EXCEPT !.pc = "returned", !.result = "None",
                                           !.namespace = ns[1]]
                         ELSE IF ~e.ok THEN [failed EXCEPT !.namespace = ns[1]]
                         ELSE [call EXCEPT !.pc = "db", !.namespace = ns[1],
                                  !.existing = existing,
                                  !.item = <<[existing[1] EXCEPT
                                       !.content = trimmed, !.embedding = e.embedding,
                                       !.metadata = metadata, !.updated_at = clock,
                                       !.priority = UpdatedPriority(metadata, existing[1],
                                                                    clock)]>>]
    /\ UNCHANGED <<vecRows, maxMemories, clock, nextId, evicted, lastAdd, cacheLast>>
    /\ UNCHANGED <<fileVars, agentVars, completion, lastSearch, fnCall>>

\* update, the with_conn closure and the return: UPDATE ... WHERE id = ?6 AND
\* namespace = ?7, then Ok(Some(item)) whatever the number of rows changed
VecUpdateDb ==
    /\ lastUpdate.pc = "db"
    /\ LET item == lastUpdate.item[1]
       IN  vecRows' = {IF r.id = item.id /\ r.namespace = item.namespace
                       THEN [r EXCEPT !.content = item.content,
                                      !.embedding = item.embedding,
                                      !.metadata = item.metadata,
                                      !.updated_at = item.updated_at,
                                      !.priority = item.priority]
                       ELSE r : r \in vecRows}
    /\ lastUpdate' = [lastUpdate EXCEPT !.pc = "returned", !.result = "Some"]
    /\ UNCHANGED <<maxMemories, clock, nextId, evicted, lastAdd, cacheVars>>
    /\ UNCHANGED <<fileVars, agentVars, completion, lastSearch, fnCall>>

\* delete(memory_id, Some(namespace)), from any task holding the store
VecDelete(memory_id, namespace) ==
    /\ LET ns == ValidateNamespace(namespace)
           hit == IF ns = <<>> THEN {}
                  ELSE {r \in vecRows : r.id = memory_id /\ r.namespace = ns[1]}
       IN  /\ hit # {}
           /\ vecRows' = vecRows \ hit
           /\ evicted' = evicted \cup hit
    /\ UNCHANGED <<maxMemories, clock, nextId, lastAdd, cacheVars>>
    /\ UNCHANGED <<fileVars, agentVars>>
    /\ UNCHANGED auxVars

\* time passes between two statements
UpdateTick ==
    /\ clock < MaxClock
    /\ clock' = clock + 1
    /\ UNCHANGED <<vecRows, maxMemories, nextId, evicted, lastAdd, cacheVars>>
    /\ UNCHANGED <<fileVars, agentVars>>
    /\ UNCHANGED auxVars

UpdateNext ==
    \/ \E memory_id \in UpdateIds, content \in VecContents, metadata \in VecMetadatas,
          namespace \in VecNamespaces, how \in EmbeddingInputs :
            VecUpdateBegin(memory_id, content, metadata, namespace, how.pre, how.clientOk)
    \/ VecUpdateDb
    \/ \E memory_id \in UpdateIds, namespace \in VecNamespaces :
            VecDelete(memory_id, namespace)
    \/ UpdateTick

\* the ranking scenario: three adds of one content, importance 0.9, 0.5 and
\* 0.1 in any order, into the empty namespace a1 of a store that keeps three
\* rows per namespace; then searches
RankImportances == <<9, 5, 1>>
RankContent == <<"fact-1">>
RankTopKs == 1..(Len(RankImportances) + 1)
RankQueries == {<<"fact-1">>, <<"fact-9">>}
RankWeights == {0, 10}

RankInit ==
    /\ vecRows \in {{}, {Row(-4, <<"fact-1">>, EmbeddingOf(<<"fact-1">>),
                             [importance |-> <<5>>], 0, 50, <<"b", "_", "1">>)}}
    /\ maxMemories = Len(RankImportances)
    /\ clock = 1
    /\ nextId = 1
    /\ evicted = {}
    /\ lastAdd = NoAdd
    /\ lastSearch = NoSearch

RankAdded == {Importance(r.metadata) : r \in RowsOf(vecRows, NsA)}

\* add(content, {importance}, Some("a1"), precomputed_embedding) of an item of
\* the scenario not added yet
RankAddBegin(k, pre) ==
    /\ RankImportances[k] \notin RankAdded
    /\ VecAddBegin(RankContent, [importance |-> <<RankImportances[k]>>], NsA, pre, TRUE)

\* the search of the scenario, once the three items are stored
RankSearch(query, top_k, threshold, priority_weight) ==
    /\ lastAdd.pc # "db"
    /\ lastSearch.count = 0
    /\ Cardinality(RowsOf(vecRows, NsA)) = Len(RankImportances)
    /\ VecSearch(query, top_k, threshold, NsA, priority_weight, TRUE)

RankNext ==
    \/ \E k \in 1..Len(RankImportances), pre \in {<<>>, EmbeddingOf(RankContent)} :
          RankAddBegin(k, pre)
    \/ VecAddDb
    \/ Tick
    \/ \E query \in RankQueries, top_k \in RankTopKs, threshold \in SearchThresholds,
          priority_weight \in RankWeights :
            RankSearch(query, top_k, threshold, priority_weight)

(***************************************************************************)
(* Agent loop: agent/mod.rs                                                *)
(***************************************************************************)
SEMAPHORE_PERMITS == 4
SUMMARY_TRIGGER_USER_TURNS == 3
SUMMARY_CONTEXT_MESSAGES == 6
SUMMARY_MAX_WINDOW_MESSAGES == 18

\* inbound messages explored
MaxMsgs == 2
\* history length from which build_history_for_llm compacts, and the messages
\* the compacted copy keeps after its summary message
CompactThreshold == 6
CompactKeep == 2

Msgs == 1..MaxMsgs

Channels == {<<"t", "g">>, <<"d", "c">>}
ChatIds == {<<"1">>}
ReplyTexts == {<<"ok">>}

\* format!("{}:{}", msg.channel, msg.chat_id)
SessionKey(msg) == msg.channel \o <<":">> \o msg.chat_id
Sessions == {c \o <<":">> \o id : c \in Channels, id \in ChatIds}

\* session_namespace
SessionNamespace_Untruncated(session_key) ==
    LET out == [i \in 1..Len(session_key) |->
                  IF IsNamespaceChar(session_key[i]) THEN session_key[i] ELSE "_"]
    IN  IF out = <<>> THEN <<"d", "e", "f", "a", "u", "l", "t">> ELSE out
SessionNamespace(session_key) ==
    LET n == IF Len(session_key) > NAMESPACE_MAX_LEN THEN NAMESPACE_MAX_LEN
             ELSE Len(session_key)
        out == [i \in 1..n |->
                  IF IsNamespaceChar(session_key[i]) THEN session_key[i] ELSE "_"]
    IN  IF out = <<>> THEN <<"d", "e", "f", "a", "u", "l", "t">> ELSE out

ChatMsg(role, content) == [role |-> role, content |-> content]

\* append_text_history
AppendTextHistory(history, user_text, assistant_text) ==
    LET h1 == IF Trim(user_text) # <<>>
              THEN Append(history, ChatMsg("user", user_text)) ELSE history
    IN  IF Trim(assistant_text) # <<>>
        THEN Append(h1, ChatMsg("assistant", assistant_text)) ELSE h1

\* SessionCompactor::compact: a shorter sequence that keeps the role order
Compact(chat_history) ==
    <<ChatMsg("user", <<"[summary of earlier turns]">>)>>
        \o SubSeq(chat_history, Len(chat_history) - CompactKeep + 1, Len(chat_history))

\* build_history_for_llm: (history for the completion call, compacted)
BuildHistoryForLlm(history) ==
    IF Len(history) < CompactThreshold
    THEN [history |-> history, compacted |-> FALSE]
    ELSE [history |-> Compact(history), compacted |-> TRUE]

\* the history process_message stores after a successful completion
\* (append_text_history(&mut history_lock, ..)): the stored history, never the
\* temp_history the completion call worked on
HistoryAfterTurn_Compacted(stored, temp_history, user_text, assistant_text) ==
    AppendTextHistory(temp_history, user_text, assistant_text)
HistoryAfterTurn(stored, temp_history, user_text, assistant_text) ==
    AppendTextHistory(stored, user_text, assistant_text)

\* to_ascii_lowercase of a token
Lower(t) ==
    CASE t = "I prefer tea." -> "i prefer tea."
      [] t = "I PREFER TEA." -> "i prefer tea."
      [] t = "I work at night." -> "i work at night."
      [] t = "I live in Oslo." -> "i live in oslo."
      [] t = "I want short replies." -> "i want short replies."
      [] t = "I'm ok." -> "i'm ok."
      [] t = "Discussed the build." -> "discussed the build."
      [] OTHER -> t

\* lowercase tokens that contain one of OBS_TRIGGERS
HasTrigger(t) ==
    t \in {"i prefer tea.", "i work at night.", "i live in oslo.",
           "i want short replies.", "i'm ok."}

LowerStr(s) == [i \in 1..Len(s) |-> Lower(s[i])]

RECURSIVE ExtractLoop(_, _, _, _)
\* the for loop of extract_user_observations over the remaining lines
ExtractLoop(lines, out, seen, max_items) ==
    IF lines = <<>> THEN out
    ELSE LET line == Trim(Head(lines))
             lower == LowerStr(line)
         IN  IF StrLen(line) < 12 \/ StrLen(line) > 220
             THEN ExtractLoop(Tail(lines), out, seen, max_items)
             ELSE IF (\E k \in 1..Len(lower) : HasTrigger(lower[k])) /\ lower \notin seen
             THEN IF Len(out) + 1 >= max_items
                  THEN Append(out, line)
                  ELSE ExtractLoop(Tail(lines), Append(out, line),
                                   seen \cup {lower}, max_items)
             ELSE ExtractLoop(Tail(lines), out, seen, max_items)

\* extract_user_observations(text, max_items)
ExtractUserObservations(text, max_items) == ExtractLoop(Lines(text), <<>>, {}, max_items)

\* the summarization window: messages[context_start..], cut to its last
\* SUMMARY_MAX_WINDOW_MESSAGES
SummaryWindow_FirstMessages(messages, start_index) ==
    LET context_start == IF start_index > SUMMARY_CONTEXT_MESSAGES
                         THEN start_index - SUMMARY_CONTEXT_MESSAGES ELSE 0
        window == From(messages, context_start)
    IN  IF Len(window) > SUMMARY_MAX_WINDOW_MESSAGES
        THEN Upto(window, SUMMARY_MAX_WINDOW_MESSAGES)
        ELSE window
SummaryWindow(messages, start_index) ==
    LET context_start == IF start_index > SUMMARY_CONTEXT_MESSAGES
                         THEN start_index - SUMMARY_CONTEXT_MESSAGES ELSE 0
        window == From(messages, context_start)
    IN  IF Len(window) > SUMMARY_MAX_WINDOW_MESSAGES
        THEN From(window, Len(window) - SUMMARY_MAX_WINDOW_MESSAGES)
        ELSE window

\* watermarks.get(&session_key).map(|v| *v).unwrap_or(0)
WatermarkOf(wm, session_key) == IF wm[session_key] = <<>> THEN 0 ELSE wm[session_key][1]

UserTurns(messages) == Cardinality({k \in 1..Len(messages) : messages[k].role = "user"})

\* the two early returns of the task: it goes on to the summarizer only when
\* the watermark is inside the snapshot and messages[start_index..] holds at
\* least SUMMARY_TRIGGER_USER_TURNS user messages
ShouldSummarize_CountWholeSnapshot(messages, start_index) ==
    /\ start_index < Len(messages)
    /\ UserTurns(messages) >= SUMMARY_TRIGGER_USER_TURNS
ShouldSummarize(messages, start_index) ==
    /\ start_index < Len(messages)
    /\ UserTurns(From(messages, start_index)) >= SUMMARY_TRIGGER_USER_TURNS

\* the control flow of the task after a summary with text came back:
\* conversation observation, extracted notes, the user observations one by
\* one, the vector insert, and only then the watermark
SumNextPc_WatermarkFirst(pc, obs_left) ==
    CASE pc = "conversation_observation" -> "watermark"
      [] pc = "extracted_facts" -> IF obs_left = <<>> THEN "vector" ELSE "user_observation"
      [] pc = "user_observation" -> IF obs_left = <<>> THEN "vector" ELSE "user_observation"
      [] pc = "vector" -> "watermark"
      [] OTHER -> "done"
SumNextPc(pc, obs_left) ==
    CASE pc = "conversation_observation" -> "extracted_facts"
      [] pc = "extracted_facts" -> IF obs_left = <<>> THEN "vector" ELSE "user_observation"
      [] pc = "user_observation" -> IF obs_left = <<>> THEN "vector" ELSE "user_observation"
      [] pc = "vector" -> "watermark"
      [] OTHER -> "done"

\* where the task goes when store.add returned: a failed insert is logged
\* and the task goes on to the watermark all the same
AfterVectorAdd(ok) == SumNextPc("vector", <<>>)

\* summary_watermarks after the match on the summarizer's result: Ok(None)
\* and a summary of blank text advance it to messages.len(), Err leaves it
WatermarksAfterSummarize_AdvanceOnErr(wm, session_key, kind, n) ==
    [wm EXCEPT ![session_key] = <<n>>]
WatermarksAfterSummarize_KeepOnEmpty(wm, session_key, kind, n) ==
    IF kind = "none" THEN [wm EXCEPT ![session_key] = <<n>>] ELSE wm
WatermarksAfterSummarize(wm, session_key, kind, n) ==
    IF kind \in {"none", "empty"} THEN [wm EXCEPT ![session_key] = <<n>>] ELSE wm

\* history.lock().await is granted only when no turn holds the session's Mutex
SessionLockFree_NoExclusion(lock) == TRUE
SessionLockFree(lock) == lock = <<>>

\* two earlier exchanges of a session whose summarization tasks found fewer
\* than SUMMARY_TRIGGER_USER_TURNS user turns and left no watermark
PriorHistory ==
    AppendTextHistory(AppendTextHistory(<<>>, <<"hello">>, <<"ok">>), <<"hello">>, <<"ok">>)

InboundMessages ==
    {[channel |-> <<"t", "g">>, chat_id |-> <<"1">>, sender_id |-> "u1", content |-> <<"hello">>],
     [channel |-> <<"t", "g">>, chat_id |-> <<"1">>, sender_id |-> "cron", content |-> <<"hello">>],
     [channel |-> <<"d", "c">>, chat_id |-> <<"1">>, sender_id |-> "u1", content |-> <<"hello">>]}

NoMsg == [channel |-> <<>>, chat_id |-> <<>>, sender_id |-> "", content |-> <<>>]
NoPrompt ==
    [file_memory |-> <<>>, session_memory |-> {}, user_text |-> <<>>, text |-> <<>>,
     recall_failed |-> FALSE]
TurnUnborn ==
    [pc |-> "unborn", msg |-> NoMsg, prompt |-> NoPrompt, history_for_llm |-> <<>>,
     compacted |-> FALSE, response_ok |-> FALSE, appended_at |-> 0, out |-> <<>>]
SumUnborn ==
    [pc |-> "unborn", session_key |-> <<>>, messages |-> <<>>, start_index |-> 0,
     window |-> <<>>, result |-> "", content |-> <<>>, importance |-> 0,
     obs_left |-> <<>>, appends |-> <<>>, vec |-> "", wrote |-> <<>>]

\* completion results: a reply, or every route failed
LlmOutcomes ==
    {[ok |-> TRUE, text |-> t] : t \in ReplyTexts}
        \cup {[ok |-> FALSE, text |-> <<"All provider/model attempts failed">>]}

\* what summarize() returns: Err, Ok(None), Ok(Some(summary))
SummaryContents ==
    {<<"I prefer tea.", NL, "I work at night.", NL, "I live in Oslo.", NL,
       "I want short replies.">>,
     <<SP>>}
SummarizerOutcomes ==
    {[kind |-> "err", content |-> <<>>], [kind |-> "none", content |-> <<>>]}
        \cup {[kind |-> "some", content |-> c] : c \in SummaryContents}
\* summary.importance, in tenths
SummaryImportance == 7

AgentInit ==
    /\ mode \in {"None", "Simple", "Smart"}
    /\ pipelineOk \in BOOLEAN
    /\ pipelineOk => mode = "Smart"
    /\ consumed = 0
    /\ permits = SEMAPHORE_PERMITS
    /\ turn = [i \in Msgs |-> TurnUnborn]
    /\ sessionLock = [s \in Sessions |-> <<>>]
    /\ \E h \in {<<>>, PriorHistory} :
          histories = [s \in Sessions |-> IF s = <<"t", "g", ":", "1">> THEN h ELSE <<>>]
    /\ watermarks = [s \in Sessions |-> <<>>]
    /\ sumTask = [i \in Msgs |-> SumUnborn]
    /\ outbound = <<>>
    /\ wmLog = <<>>

\* run(): consume_inbound() returned a message; the loop now waits for a permit
Consume(msg) ==
    /\ consumed < Len(turn)
    /\ \A i \in DOMAIN turn : turn[i].pc # "permit"
    /\ consumed' = consumed + 1
    /\ turn' = [turn EXCEPT ![consumed + 1] = [TurnUnborn EXCEPT !.pc = "permit", !.msg = msg]]
    /\ UNCHANGED <<mode, pipelineOk, permits, sessionLock, histories, watermarks,
                   sumTask, outbound, wmLog>>
    /\ UNCHANGED <<fileVars, cacheVars, vecVars>>
    /\ UNCHANGED auxVars

\* sem.acquire_owned().await returns only when the semaphore holds a permit
PermitAvailable_Always(p) == TRUE
PermitAvailable(p) == p > 0

\* run(): acquire_owned() returned, the task of the message is spawned
Spawn(i) ==
    /\ turn[i].pc = "permit"
    /\ PermitAvailable(permits)
    /\ permits' = permits - 1
    /\ turn' = [turn EXCEPT ![i].pc = "lock"]
    /\ UNCHANGED <<mode, pipelineOk, consumed, sessionLock, histories, watermarks,
                   sumTask, outbound, wmLog>>
    /\ UNCHANGED <<fileVars, cacheVars, vecVars>>
    /\ UNCHANGED auxVars

\* process_message: history.lock().await
TurnLock(i) ==
    /\ turn[i].pc = "lock"
    /\ SessionLockFree(sessionLock[SessionKey(turn[i].msg)])
    /\ sessionLock' = [sessionLock EXCEPT ![SessionKey(turn[i].msg)] = <<i>>]
    /\ turn' = [turn EXCEPT ![i].pc = "prompt"]
    /\ UNCHANGED <<mode, pipelineOk, consumed, permits, histories, watermarks,
                   sumTask, outbound, wmLog>>
    /\ UNCHANGED <<fileVars, cacheVars, vecVars>>
    /\ UNCHANGED auxVars

\* get_memory_context(MAX_CONTEXT_CHARS) of a store without daily notes: the
\* long-term file under its heading (the files explored are below the budget)
GetMemoryContext(file) ==
    IF file = <<>> THEN <<>> ELSE <<"## Long-term Memory", NL>> \o file

RECURSIVE SplitWhitespace(_)
\* str::split_whitespace: the words of s, each a sequence of tokens
SplitWhitespace(s) ==
    LET t == TrimStart(s)
        ends == {k \in 1..Len(t) : IsSpace(t[k])}
        n == IF ends = {} THEN Len(t) ELSE (CHOOSE k \in ends : \A j \in ends : k <= j) - 1
    IN  IF t = <<>> THEN <<>>
        ELSE <<SubSeq(t, 1, n)>> \o SplitWhitespace(SubSeq(t, n + 1, Len(t)))

\* the longest prefix of s, in whole tokens, of at most max_chars characters
TakeChars(s, max_chars) ==
    LET fits == {k \in 0..Len(s) : StrLen(SubSeq(s, 1, k)) <= max_chars}
    IN  SubSeq(s, 1, CHOOSE k \in fits : \A j \in fits : j <= k)

\* truncate_memory_snippet
TruncateMemorySnippet(input, max_chars) ==
    LET compact == Join(SplitWhitespace(input), <<SP>>)
    IN  IF StrLen(compact) > max_chars THEN TakeChars(compact, max_chars) \o <<"...">>
        ELSE compact

\* build_session_vector_recall: what store.search(query, 5, 0.08, namespace, 0.3)
\* may return to it, <<>> standing for no result and for Err.  e: the
\* embedding of the query; dbOk: the database answers the search.
SessionRecallSeqs_IgnoringErr(rows, e, dbOk, namespace) ==
    SearchSeqs(rows, e.embedding, 5, 8, namespace, 3)
SessionRecallSeqs(rows, e, dbOk, namespace) ==
    IF e.ok /\ dbOk THEN SearchSeqs(rows, e.embedding, 5, 8, namespace, 3)
    ELSE {<<>>}

\* build_session_vector_recall: the lines of the first three results
SessionVectorMemory(results, query_embedding) ==
    LET n == IF Len(results) < 3 THEN Len(results) ELSE 3
    IN  Join([k \in 1..n |->
                <<"- (", ToString(CosineSimilarity(query_embedding, results[k].embedding)),
                  ") ">>
                    \o TruncateMemorySnippet(results[k].content, 260)],
             <<NL>>)

\* build_prompt_with_memory: the context header
ContextHeader(msg) ==
    <<"[Conversation context]", NL, "channel: ">> \o msg.channel
        \o <<NL, "chat_id: ">> \o msg.chat_id \o <<NL, "sender_id: ", msg.sender_id>>

\* build_prompt_with_memory, given what the two stores return when asked
BuildPromptWithMemory_NoEarlyReturn(md, msg, file_memory, session_vector_memory) ==
    ContextHeader(msg) \o <<NL, NL, "[Notes from memory]", NL>> \o file_memory
        \o <<NL, NL, "[User message]", NL>> \o msg.content
BuildPromptWithMemory(md, msg, file_memory, session_vector_memory) ==
    LET context == ContextHeader(msg)
        user == <<NL, NL, "[User message]", NL>> \o msg.content
        notes == <<NL, NL, "[Notes from memory]", NL>> \o file_memory
        session == <<NL, NL, "[Notes from session memory]", NL>> \o session_vector_memory
    IN  IF md = "None" THEN context \o user
        ELSE IF file_memory = <<>> /\ session_vector_memory = <<>> THEN context \o user
        ELSE IF file_memory = <<>> THEN context \o session \o user
        ELSE IF session_vector_memory = <<>> THEN context \o notes \o user
        ELSE context \o notes \o session \o user

\* process_message: build_prompt_with_memory, then build_history_for_llm.
\* clientOk: the embedding client answers the recall query; dbOk: the database
\* answers the search.
TurnPrompt(i, clientOk, dbOk) ==
    /\ turn[i].pc = "prompt"
    /\ LET msg == turn[i].msg
           key == SessionKey(msg)
           query == Trim(msg.content)
           recall == mode = "Smart" /\ query # <<>> /\ pipelineOk
           e == IF recall THEN Embed(cacheEntries, cacheCounter, query, clientOk)
                ELSE [ok |-> FALSE, embedding |-> <<>>,
                      entries |-> cacheEntries, counter |-> cacheCounter]
           h == BuildHistoryForLlm(histories[key])
       IN  /\ cacheEntries' = e.entries
           /\ cacheCounter' = e.counter
           /\ \E results \in SessionRecallSeqs(vecRows, e, recall /\ dbOk,
                                               SessionNamespace(key)) :
                /\ vecRows' = BumpAccess(vecRows, Range(results))
                /\ turn' = [turn EXCEPT ![i].pc = "llm",
                              ![i].prompt =
                                 [file_memory |-> IF mode = "None" THEN <<>>
                                                  ELSE GetMemoryContext(memoryFile),
                                  session_memory |->
                                     {results[k].id : k \in (1..3) \cap DOMAIN results},
                                  user_text |-> msg.content,
                                  text |-> BuildPromptWithMemory(mode, msg,
                                              GetMemoryContext(memoryFile),
                                              SessionVectorMemory(results, e.embedding)),
                                  recall_failed |-> recall /\ ~(e.ok /\ dbOk)],
                              ![i].history_for_llm = h.history,
                              ![i].compacted = h.compacted]
    /\ UNCHANGED <<mode, pipelineOk, consumed, permits, sessionLock, histories,
                   watermarks, sumTask, outbound, wmLog>>
    /\ UNCHANGED <<fileVars, cacheLast, maxMemories, clock, nextId, evicted, lastAdd>>
    /\ UNCHANGED auxVars

RECURSIVE AppendAll(_, _, _)
\* one append_* call per text, in order
AppendAll(file, helper, texts) ==
    IF texts = <<>> THEN file
    ELSE AppendAll(AppendSectionEntries(file, AppendCall(helper, Head(texts))),
                   helper, Tail(texts))

\* append_extracted_facts(facts): every fact a dated bullet, one call
ExtractedFactsCall(facts) ==
    [header |-> EXTRACTED_SECTION_HEADER,
     entries |-> [k \in 1..Len(facts) |-> DatedBullet(facts[k])],
     limit |-> <<MAX_EXTRACTED_NOTES_CHARS>>]

\* ingest_simple_memory_extracts: MEMORY.md after it
IngestSimpleMemoryExtracts(file, user_text) ==
    IF mode # "Simple" THEN file
    ELSE LET user_observations == ExtractUserObservations(user_text, 5)
         IN  AppendSectionEntries(AppendAll(file, "user_observation", user_observations),
                                  ExtractedFactsCall(user_observations))

\* match response: the completion returned Ok
IsOk_Always(response) == TRUE
IsOk(response) == response.ok

\* what process_message returns to the spawned task: Some(OutboundMessage) or
\* None, as a sequence
TurnOutput_CronReplies(msg, response) ==
    <<[channel |-> msg.channel, chat_id |-> msg.chat_id, content |-> response.text]>>
TurnOutput(msg, response) ==
    IF response.ok
    THEN IF msg.sender_id = "cron" THEN <<>>
         ELSE <<[channel |-> msg.channel, chat_id |-> msg.chat_id,
                 content |-> response.text]>>
    ELSE <<[channel |-> msg.channel, chat_id |-> msg.chat_id,
            content |-> <<"Sorry, I encountered an error: ">> \o response.text]>>

\* process_message from the return of prompt_with_fallback to its own return,
\* where prompt and history_for_llm go out of scope
TurnComplete(i, outcome) ==
    /\ turn[i].pc = "llm"
    /\ LET msg == turn[i].msg
           key == SessionKey(msg)
           stored == HistoryAfterTurn(histories[key], turn[i].history_for_llm,
                                      msg.content, outcome.text)
       IN  IF IsOk(outcome)
           THEN /\ histories' = [histories EXCEPT ![key] = stored]
                /\ memoryFile' = IngestSimpleMemoryExtracts(memoryFile, msg.content)
                /\ sumTask' = IF pipelineOk
                              THEN [sumTask EXCEPT ![i] =
                                      [SumUnborn EXCEPT !.pc = "start", !.session_key = key,
                                                        !.messages = stored]]
                              ELSE sumTask
                /\ turn' = [turn EXCEPT ![i].pc = "publish",
                              ![i].prompt = NoPrompt, ![i].history_for_llm = <<>>,
                              ![i].response_ok = outcome.ok,
                              ![i].appended_at = Len(stored),
                              ![i].out = TurnOutput(msg, outcome)]
           ELSE /\ turn' = [turn EXCEPT ![i].pc = "publish",
                              ![i].prompt = NoPrompt, ![i].history_for_llm = <<>>,
                              ![i].response_ok = outcome.ok,
                              ![i].out = TurnOutput(msg, outcome)]
                /\ UNCHANGED <<histories, memoryFile, sumTask>>
    /\ sessionLock' = [sessionLock EXCEPT ![SessionKey(turn[i].msg)] = <<>>]
    /\ UNCHANGED <<mode, pipelineOk, consumed, permits, watermarks, outbound, wmLog>>
    /\ UNCHANGED <<fileLock, writer, cacheVars, vecVars>>
    /\ UNCHANGED auxVars

\* the spawned task of run(): publish_outbound(out), drop(permit). The session's
\* history lock was released when process_message returned. appended_at is the
\* length the stored history had after this turn's append, kept while the reply
\* waits to be published
TurnPublish(i) ==
    /\ turn[i].pc = "publish"
    /\ outbound' = outbound \o turn[i].out
    /\ permits' = permits + 1
    /\ turn' = [turn EXCEPT ![i].pc = "done", ![i].appended_at = 0]
    /\ UNCHANGED <<mode, pipelineOk, consumed, sessionLock, histories, watermarks,
                   sumTask, wmLog>>
    /\ UNCHANGED <<fileVars, cacheVars, vecVars>>
    /\ UNCHANGED auxVars

\* the task spawned by spawn_memory_summary_ingestion starts: it reads the
\* watermark, returns at once or builds the window and calls the summarizer
SumStart(i) ==
    /\ sumTask[i].pc = "start"
    /\ LET t == sumTask[i]
           start_index == WatermarkOf(watermarks, t.session_key)
           go == ShouldSummarize(t.messages, start_index)
       IN  sumTask' = [sumTask EXCEPT ![i].start_index = start_index,
                         ![i].pc = IF go THEN "summarize" ELSE "done",
                         ![i].result = IF go THEN "" ELSE "skipped",
                         ![i].window = IF go THEN SummaryWindow(t.messages, start_index)
                                       ELSE <<>>]
    /\ UNCHANGED <<mode, pipelineOk, consumed, permits, turn, sessionLock, histories,
                   watermarks, outbound, wmLog>>
    /\ UNCHANGED <<fileVars, cacheVars, vecVars>>
    /\ UNCHANGED auxVars

\* summarize(&window) returned: the match on its result and the check for a
\* summary of blank text
SumReturn(i, outcome) ==
    /\ sumTask[i].pc = "summarize"
    /\ LET t == sumTask[i]
           result == IF outcome.kind = "some"
                     THEN IF Trim(outcome.content) = <<>> THEN "empty" ELSE "stored"
                     ELSE outcome.kind
           n == Len(t.messages)
       IN  /\ watermarks' = WatermarksAfterSummarize(watermarks, t.session_key, result, n)
           /\ wmLog' = IF result \in {"none", "empty"}
                       THEN Append(wmLog, [session_key |-> t.session_key, value |-> n])
                       ELSE wmLog
           /\ sumTask' = [sumTask EXCEPT
                 ![i].result = result,
                 ![i].content = IF result = "stored" THEN outcome.content ELSE <<>>,
                 ![i].importance = IF result = "stored" THEN SummaryImportance ELSE 0,
                 ![i].wrote = IF result \in {"none", "empty"} THEN <<n>> ELSE <<>>,
                 ![i].pc = IF result = "stored" THEN "conversation_observation" ELSE "done"]
    /\ UNCHANGED <<mode, pipelineOk, consumed, permits, turn, sessionLock, histories,
                   outbound>>
    /\ UNCHANGED <<fileVars, cacheVars, vecVars>>
    /\ UNCHANGED auxVars

\* memory_store.append_conversation_observation(&summary.content)
SumConversationObservation(i) ==
    /\ sumTask[i].pc = "conversation_observation"
    /\ memoryFile' = AppendSectionEntries(memoryFile,
                        AppendCall("conversation_observation", sumTask[i].content))
    /\ sumTask' = [sumTask EXCEPT
          ![i].appends = Append(@, "conversation_observation"),
          ![i].pc = SumNextPc("conversation_observation", <<>>)]
    /\ UNCHANGED <<mode, pipelineOk, consumed, permits, turn, sessionLock, histories,
                   watermarks, outbound, wmLog>>
    /\ UNCHANGED <<fileLock, writer, cacheVars, vecVars>>
    /\ UNCHANGED auxVars

\* memory_store.append_extracted_facts(&[summary.content.clone()]), and the
\* call of extract_user_observations(&summary.content, 3) that opens the loop
SumExtractedFacts(i) ==
    /\ sumTask[i].pc = "extracted_facts"
    /\ LET obs == ExtractUserObservations(sumTask[i].content, 3)
       IN  /\ memoryFile' = AppendSectionEntries(memoryFile,
                               ExtractedFactsCall(<<sumTask[i].content>>))
           /\ sumTask' = [sumTask EXCEPT
                 ![i].appends = Append(@, "extracted_facts"),
                 ![i].obs_left = obs,
                 ![i].pc = SumNextPc("extracted_facts", obs)]
    /\ UNCHANGED <<mode, pipelineOk, consumed, permits, turn, sessionLock, histories,
                   watermarks, outbound, wmLog>>
    /\ UNCHANGED <<fileLock, writer, cacheVars, vecVars>>
    /\ UNCHANGED auxVars

\* one round of the loop: memory_store.append_user_observation(&obs)
SumUserObservation(i) ==
    /\ sumTask[i].pc = "user_observation"
    /\ memoryFile' = AppendSectionEntries(memoryFile,
                        AppendCall("user_observation", Head(sumTask[i].obs_left)))
    /\ sumTask' = [sumTask EXCEPT
          ![i].appends = Append(@, "user_observation"),
          ![i].obs_left = Tail(@),
          ![i].pc = SumNextPc("user_observation", Tail(sumTask[i].obs_left))]
    /\ UNCHANGED <<mode, pipelineOk, consumed, permits, turn, sessionLock, histories,
                   watermarks, outbound, wmLog>>
    /\ UNCHANGED <<fileLock, writer, cacheVars, vecVars>>
    /\ UNCHANGED auxVars

\* store.add(&summary.content, metadata, Some(&namespace), None) and the
\* if let Err around it.  clientOk: the embedding client answers; dbOk: the
\* with_conn closure of add succeeds.
SumVectorAdd(i, clientOk, dbOk) ==
    /\ sumTask[i].pc = "vector"
    /\ LET t == sumTask[i]
           trimmed == Trim(t.content)
           ns == ValidateNamespace(SessionNamespace(t.session_key))
           metadata == [importance |-> <<t.importance>>, session |-> t.session_key,
                        start_index |-> t.start_index, end_index |-> Len(t.messages)]
           valid == trimmed # <<>> /\ StrLen(trimmed) <= MAX_CONTENT_LENGTH /\ ns # <<>>
           e == IF valid THEN Embed(cacheEntries, cacheCounter, trimmed, clientOk)
                ELSE [ok |-> FALSE, embedding |-> <<>>,
                      entries |-> cacheEntries, counter |-> cacheCounter]
           ok == valid /\ e.ok /\ dbOk
       IN  /\ cacheEntries' = e.entries
           /\ cacheCounter' = e.counter
           /\ IF ok
              THEN LET item == Row(nextId, trimmed, e.embedding, metadata, clock,
                                   InitialPriority(metadata), ns[1])
                   IN  \E D \in PruneSets(vecRows \cup {item}, ns[1], maxMemories) :
                          /\ vecRows' = (vecRows \cup {item}) \ D
                          /\ evicted' = evicted \cup D
                          /\ nextId' = nextId + 1
              ELSE UNCHANGED <<vecRows, evicted, nextId>>
           /\ sumTask' = [sumTask EXCEPT
                 ![i].vec = IF ok THEN "ok" ELSE IF valid /\ e.ok THEN "db_failed"
                            ELSE "embed_failed",
                 ![i].pc = AfterVectorAdd(ok)]
    /\ UNCHANGED <<mode, pipelineOk, consumed, permits, turn, sessionLock, histories,
                   watermarks, outbound, wmLog>>
    /\ UNCHANGED <<fileVars, cacheLast, maxMemories, clock, lastAdd>>
    /\ UNCHANGED auxVars

\* watermarks.insert(session_key.clone(), messages.len()), the last statement
SumSetWatermark(i) ==
    /\ sumTask[i].pc = "watermark"
    /\ LET t == sumTask[i]
           n == Len(t.messages)
       IN  /\ watermarks' = [watermarks EXCEPT ![t.session_key] = <<n>>]
           /\ wmLog' = Append(wmLog, [session_key |-> t.session_key, value |-> n])
           /\ sumTask' = [sumTask EXCEPT ![i].wrote = <<n>>,
                                         ![i].pc = SumNextPc("watermark", <<>>)]
    /\ UNCHANGED <<mode, pipelineOk, consumed, permits, turn, sessionLock, histories,
                   outbound>>
    /\ UNCHANGED <<fileVars, cacheVars, vecVars>>
    /\ UNCHANGED auxVars

AgentNext ==
    \/ \E msg \in InboundMessages : Consume(msg)
    \/ \E i \in Msgs : Spawn(i)
    \/ \E i \in Msgs : TurnLock(i)
    \/ \E i \in Msgs, clientOk \in BOOLEAN, dbOk \in BOOLEAN :
          TurnPrompt(i, clientOk, dbOk)
    \/ \E i \in Msgs, outcome \in LlmOutcomes : TurnComplete(i, outcome)
    \/ \E i \in Msgs : TurnPublish(i)
    \/ \E i \in Msgs : SumStart(i)
    \/ \E i \in Msgs, outcome \in SummarizerOutcomes : SumReturn(i, outcome)
    \/ \E i \in Msgs : SumConversationObservation(i)
    \/ \E i \in Msgs : SumExtractedFacts(i)
    \/ \E i \in Msgs : SumUserObservation(i)
    \/ \E i \in Msgs, clientOk \in BOOLEAN, dbOk \in BOOLEAN : SumVectorAdd(i, clientOk, dbOk)
    \/ \E i \in Msgs : SumSetWatermark(i)

\* messages explored when only the turns are followed
MaxTurnMsgs == 5
TurnMsgs == 1..MaxTurnMsgs

\* the inbound messages of these runs: a user of one chat, the cron service
\* in another
TurnMessages ==
    {[channel |-> <<"t", "g">>, chat_id |-> <<"1">>, sender_id |-> "u1", content |-> <<"hello">>],
     [channel |-> <<"d", "c">>, chat_id |-> <<"1">>, sender_id |-> "cron", content |-> <<"hello">>]}

\* an agent without memory (MemoryMode::None): turns only, no summarization
TurnsInit ==
    /\ mode = "None"
    /\ pipelineOk = FALSE
    /\ consumed = 0
    /\ permits = SEMAPHORE_PERMITS
    /\ turn = [i \in TurnMsgs |-> TurnUnborn]
    /\ sessionLock = [s \in Sessions |-> <<>>]
    /\ histories = [s \in Sessions |-> <<>>]
    /\ watermarks = [s \in Sessions |-> <<>>]
    /\ sumTask = [i \in TurnMsgs |-> SumUnborn]
    /\ outbound = <<>>
    /\ wmLog = <<>>

TurnsNext ==
    \/ \E msg \in TurnMessages : Consume(msg)
    \/ \E i \in TurnMsgs : Spawn(i)
    \/ \E i \in TurnMsgs : TurnLock(i)
    \/ \E i \in TurnMsgs, clientOk \in BOOLEAN, dbOk \in BOOLEAN :
          TurnPrompt(i, clientOk, dbOk)
    \/ \E i \in TurnMsgs, outcome \in LlmOutcomes : TurnComplete(i, outcome)
    \/ \E i \in TurnMsgs : TurnPublish(i)

(***************************************************************************)
(* Turns of an agent whose stores are in use                               *)
(***************************************************************************)
\* two chats of one channel whose session keys differ in one character, and a
\* chat of another channel
RecallMessages ==
    {[channel |-> <<"t", "g">>, chat_id |-> <<"1", "_", "2">>, sender_id |-> "u1",
      content |-> <<"hello">>],
     [channel |-> <<"t", "g">>, chat_id |-> <<"1", ".", "2">>, sender_id |-> "u2",
      content |-> <<"hello">>],
     [channel |-> <<"d", "c">>, chat_id |-> <<"1">>, sender_id |-> "u1",
      content |-> <<"hello">>]}
RecallSessions == {SessionKey(msg) : msg \in RecallMessages}

\* MEMORY.md of a store in use
RecallFile == <<H2, "Remembered Facts", NL, "- [today] ", "fact-1", NL>>

\* the row a summarization task of session tg:1_2 inserted (metadata and
\* namespace as spawn_memory_summary_ingestion sets them)
RecallInitRows ==
    {Row(-1, <<"I prefer tea.">>, EmbeddingOf(<<"I prefer tea.">>),
         [importance |-> <<SummaryImportance>>, session |-> <<"t", "g", ":", "1", "_", "2">>,
          start_index |-> 0, end_index |-> 6],
         0, InitialPriority([importance |-> <<SummaryImportance>>]),
         SessionNamespace(<<"t", "g", ":", "1", "_", "2">>))}

RecallInit ==
    /\ mode \in {"None", "Simple", "Smart"}
    /\ pipelineOk = (mode = "Smart")
    /\ consumed = 0
    /\ permits = SEMAPHORE_PERMITS
    /\ turn = [i \in Msgs |-> TurnUnborn]
    /\ sessionLock = [s \in RecallSessions |-> <<>>]
    /\ histories = [s \in RecallSessions |->
                      IF s = <<"d", "c", ":", "1">> THEN PriorHistory ELSE <<>>]
    /\ watermarks = [s \in RecallSessions |-> <<>>]
    /\ sumTask = [i \in Msgs |-> SumUnborn]
    /\ outbound = <<>>
    /\ wmLog = <<>>
    /\ memoryFile = RecallFile
    /\ vecRows = RecallInitRows
    /\ maxMemories = MaxMaxMemories
    /\ clock = 1
    /\ nextId = 1
    /\ evicted = {}
    /\ lastAdd = NoAdd

RecallNext ==
    \/ \E msg \in RecallMessages : Consume(msg)
    \/ \E i \in Msgs : Spawn(i)
    \/ \E i \in Msgs : TurnLock(i)
    \/ \E i \in Msgs, clientOk \in BOOLEAN, dbOk \in BOOLEAN :
          TurnPrompt(i, clientOk, dbOk)
    \/ \E i \in Msgs, outcome \in LlmOutcomes : TurnComplete(i, outcome)
    \/ \E i \in Msgs : TurnPublish(i)
    \/ \E i \in Msgs : SumStart(i)
    \/ \E i \in Msgs, outcome \in SummarizerOutcomes : SumReturn(i, outcome)
    \/ \E i \in Msgs : SumConversationObservation(i)
    \/ \E i \in Msgs : SumExtractedFacts(i)
    \/ \E i \in Msgs : SumUserObservation(i)
    \/ \E i \in Msgs, clientOk \in BOOLEAN, dbOk \in BOOLEAN : SumVectorAdd(i, clientOk, dbOk)
    \/ \E i \in Msgs : SumSetWatermark(i)

(***************************************************************************)
(* Summarization of long histories                                         *)
(***************************************************************************)
\* messages of the longest stored history explored
MaxSnapshot == 26

\* a stored history of n messages, user and assistant in turn, all different
LongHistory(n) ==
    [k \in 1..n |-> ChatMsg(IF k % 2 = 1 THEN "user" ELSE "assistant",
                            <<"msg-", ToString(k)>>)]

\* a Smart-mode agent whose turn on session tg:1 has just ended and spawned
\* its summarization task: the history holds n messages, the watermark is
\* missing or the length of an earlier snapshot
WindowInit ==
    /\ mode = "Smart"
    /\ pipelineOk = TRUE
    /\ consumed = 1
    /\ permits = SEMAPHORE_PERMITS
    /\ turn = [i \in Msgs |-> IF i = 1 THEN [TurnUnborn EXCEPT !.pc = "done"]
                              ELSE TurnUnborn]
    /\ sessionLock = [s \in Sessions |-> <<>>]
    /\ outbound = <<>>
    /\ wmLog = <<>>
    /\ \E n \in 1..(MaxSnapshot \div 2) :
          \E wm \in {<<>>} \cup {<<2 * k>> : k \in 1..n} :
            /\ histories = [s \in Sessions |->
                              IF s = <<"t", "g", ":", "1">> THEN LongHistory(2 * n)
                              ELSE <<>>]
            /\ watermarks = [s \in Sessions |->
                               IF s = <<"t", "g", ":", "1">> THEN wm ELSE <<>>]
            /\ sumTask = [i \in Msgs |->
                            IF i = 1
                            THEN [SumUnborn EXCEPT !.pc = "start",
                                     !.session_key = <<"t", "g", ":", "1">>,
                                     !.messages = LongHistory(2 * n)]
                            ELSE SumUnborn]

WindowNext ==
    \/ \E i \in Msgs : SumStart(i)
    \/ \E i \in Msgs, outcome \in SummarizerOutcomes : SumReturn(i, outcome)
    \/ \E i \in Msgs : SumConversationObservation(i)
    \/ \E i \in Msgs : SumExtractedFacts(i)
    \/ \E i \in Msgs : SumUserObservation(i)
    \/ \E i \in Msgs, clientOk \in BOOLEAN, dbOk \in BOOLEAN : SumVectorAdd(i, clientOk, dbOk)
    \/ \E i \in Msgs : SumSetWatermark(i)

(***************************************************************************)
(* extract_user_observations on any text                                   *)
(***************************************************************************)
\* lines per text and the largest max_items explored
MaxLines == 3
MaxItems == 3

\* lines a text is made of: with and without a trigger phrase, too short,
\* too long, padded, and the same line in another case
ObservationLines ==
    {<<"I prefer tea.">>, <<"I PREFER TEA.">>, <<SP, "I live in Oslo.", SP>>,
     <<"I'm ok.">>, <<"Discussed the build.">>, <<"I work at night.", "huge-note">>}

RECURSIVE TextsOfLines(_)
\* the texts of exactly n lines
TextsOfLines(n) ==
    IF n = 1 THEN ObservationLines
    ELSE {l \o <<NL>> \o t : l \in ObservationLines, t \in TextsOfLines(n - 1)}

ExtractInit ==
    fnCall \in {[fn |-> "extract_user_observations", pc |-> "called", text |-> t,
                 max_items |-> m, result |-> <<>>] :
                    t \in UNION {TextsOfLines(n) : n \in 1..MaxLines}, m \in 0..MaxItems}

\* extract_user_observations(text, max_items) returns
ExtractReturn ==
    /\ fnCall.fn = "extract_user_observations"
    /\ fnCall.pc = "called"
    /\ fnCall' = [fnCall EXCEPT !.pc = "returned",
                     !.result = ExtractUserObservations(fnCall.text, fnCall.max_items)]
    /\ UNCHANGED <<fileVars, cacheVars, vecVars, agentVars, completion, lastSearch,
                   lastUpdate>>

ExtractNext == ExtractReturn

(***************************************************************************)
(* Namespace derivation on any string                                      *)
(***************************************************************************)
\* length of the short strings explored
MaxNsLen == 3

NsChars == {"a", "Z", "1", "_", "-", ":", SP}

\* strings up to MaxNsLen characters, and strings around NAMESPACE_MAX_LEN
NamespaceInputs ==
    UNION {[1..n -> NsChars] : n \in 0..MaxNsLen}
        \cup {[k \in 1..n |-> c] : n \in (NAMESPACE_MAX_LEN - 1)..(NAMESPACE_MAX_LEN + 2),
                                   c \in {"a", ":"}}

NamespaceInit ==
    fnCall \in {[fn |-> "namespace", pc |-> "called", input |-> x,
                 session |-> <<>>, validated |-> <<>>, addressed |-> <<>>] :
                    x \in NamespaceInputs}

\* session_namespace(input) and validate_namespace(input) return; validated
\* is <<>> for Err and <<ns>> for Ok(ns).  addressed is the namespace the store
\* works on when the agent passes Some(&session_namespace(input)) to add or
\* search, which validate it again
NamespaceReturn ==
    /\ fnCall.fn = "namespace"
    /\ fnCall.pc = "called"
    /\ fnCall' = [fnCall EXCEPT !.pc = "returned",
                     !.session = SessionNamespace(fnCall.input),
                     !.validated = ValidateNamespace(fnCall.input),
                     !.addressed = ValidateNamespace(SessionNamespace(fnCall.input))]
    /\ UNCHANGED <<fileVars, cacheVars, vecVars, agentVars, completion, lastSearch,
                   lastUpdate>>

NamespaceNext == NamespaceReturn

(***************************************************************************)
(* Concurrent callers of EmbeddingService::embed                           *)
(***************************************************************************)
EmbedCallers == {"e1", "e2"}

\* calls of embed explored
MaxEmbeds == 3

\* texts embedded: one cached in a prefilled cache, two never seen, a blank
EmbedTexts ==
    {CacheText(1), CacheText(MAX_CACHE_ENTRIES + 1), CacheText(MAX_CACHE_ENTRIES + 2),
     <<SP>>}

EmbedIdle ==
    [pc |-> "idle", text |-> <<>>, ok |-> FALSE, embedding |-> <<>>,
     client_called |-> FALSE]

\* EmbeddingCache::get: <<>> for None, <<embedding>> for Some
CacheGet_Miss(entries, key) == <<>>
CacheGet(entries, key) ==
    IF key \in CacheKeysOf(entries)
    THEN <<(CHOOSE e \in entries : e.key = key).embedding>>
    ELSE <<>>

EmbedInit ==
    /\ CacheInit
    /\ fnCall = [fn |-> "embed", caller |-> [c \in EmbedCallers |-> EmbedIdle],
                 started |-> 0]

\* embed up to the call of the client: the blank test, then the lookup under
\* the cache lock, which is dropped before the client is called
EmbedStart(c, text) ==
    /\ fnCall.fn = "embed"
    /\ fnCall.caller[c].pc = "idle"
    /\ fnCall.started < MaxEmbeds
    /\ LET cached == CacheGet(cacheEntries, text)
           after == IF Trim(text) = <<>>
                    THEN [EmbedIdle EXCEPT !.pc = "done", !.text = text]
                    ELSE IF cached # <<>>
                    THEN [EmbedIdle EXCEPT !.pc = "done", !.text = text, !.ok = TRUE,
                                           !.embedding = cached[1]]
                    ELSE [EmbedIdle EXCEPT !.pc = "client", !.text = text]
       IN  fnCall' = [fnCall EXCEPT !.caller[c] = after, !.started = @ + 1]
    /\ UNCHANGED <<fileVars, cacheVars, vecVars, agentVars, completion, lastSearch,
                   lastUpdate>>

\* the client returns: on Ok the cache lock is taken again and
\* cache.insert(text, embedding) runs; on Err embed returns the error (`?`)
EmbedClient(c, clientOk) ==
    /\ fnCall.fn = "embed"
    /\ fnCall.caller[c].pc = "client"
    /\ LET text == fnCall.caller[c].text
       IN  IF clientOk
           THEN /\ cacheEntries' = CacheInsert(cacheEntries, cacheCounter, text,
                                               EmbeddingOf(text))
                /\ cacheCounter' = cacheCounter + 1
                /\ cacheLast' = [cacheLast EXCEPT !.key = text, !.before = cacheEntries]
                /\ fnCall' = [fnCall EXCEPT !.caller[c].pc = "done",
                                 !.caller[c].ok = TRUE,
                                 !.caller[c].embedding = EmbeddingOf(text),
                                 !.caller[c].client_called = TRUE]
           ELSE /\ fnCall' = [fnCall EXCEPT !.caller[c].pc = "done",
                                 !.caller[c].client_called = TRUE]
                /\ UNCHANGED cacheVars
    /\ UNCHANGED <<fileVars, vecVars, agentVars, completion, lastSearch, lastUpdate>>

\* the caller takes the result; it may call embed again
EmbedReturn(c) ==
    /\ fnCall.fn = "embed"
    /\ fnCall.caller[c].pc = "done"
    /\ fnCall' = [fnCall EXCEPT !.caller[c] = EmbedIdle]
    /\ UNCHANGED <<fileVars, cacheVars, vecVars, agentVars, completion, lastSearch,
                   lastUpdate>>

EmbedNext ==
    \/ \E c \in EmbedCallers, text \in EmbedTexts : EmbedStart(c, text)
    \/ \E c \in EmbedCallers, clientOk \in BOOLEAN : EmbedClient(c, clientOk)
    \/ \E c \in EmbedCallers : EmbedReturn(c)

(***************************************************************************)
(* Completion call with fallback: agent/mod.rs prompt_with_fallback        *)
(***************************************************************************)
PER_ROUTE_MAX_RETRIES == 2

\* configured provider routes explored (self.agents)
MaxRoutes == 2

RouteProvider(r) == IF r = 1 THEN "openrouter" ELSE "openai"
RouteModel(r) == <<"model-", ToString(r)>>

\* error texts of a failed attempt
FailureMessages ==
    {<<"HTTP ", "429">>, <<"Request ", "Timed Out">>, <<"HTTP ", "503">>,
     <<"HTTP ", "401">>, <<"HTTP ", "404", SP, "not found">>, <<"boom">>,
     <<"HTTP ", "401", " after ", "timeout">>}

\* to_ascii_lowercase of an error text
LowerMsg(message) ==
    [k \in 1..Len(message) |->
        IF message[k] = "Timed Out" THEN "timed out"
        ELSE IF message[k] = "HTTP " THEN "http "
        ELSE IF message[k] = "Request " THEN "request "
        ELSE message[k]]

\* str::contains for the patterns classify_failure looks for
Contains(lower, pat) == \E k \in 1..Len(lower) : lower[k] = pat

classify_failure(message) ==
    LET lower == LowerMsg(message)
    IN  IF Contains(lower, "429") \/ Contains(lower, "rate limit") THEN "rate_limit"
        ELSE IF Contains(lower, "timeout") \/ Contains(lower, "timed out")
                \/ Contains(lower, "deadline") THEN "timeout"
        ELSE IF Contains(lower, "502") \/ Contains(lower, "503") \/ Contains(lower, "504")
                \/ Contains(lower, "connection reset")
                \/ Contains(lower, "temporarily unavailable") THEN "upstream"
        ELSE IF Contains(lower, "401") \/ Contains(lower, "403")
                \/ Contains(lower, "unauthorized") THEN "auth"
        ELSE IF Contains(lower, "400") \/ Contains(lower, "invalid request")
                \/ Contains(lower, "invalid model") \/ Contains(lower, "not found")
             THEN "request"
        ELSE "unknown"

RetryableClasses == {"rate_limit", "timeout", "upstream"}

should_retry_same_route_AnyClass(class, attempt) == attempt < PER_ROUTE_MAX_RETRIES
should_retry_same_route(class, attempt) ==
    IF attempt >= PER_ROUTE_MAX_RETRIES THEN FALSE
    ELSE class \in RetryableClasses

\* backoff_ms before the retry that follows attempt number `attempt` (0-based)
BackoffMs(attempt) == (attempt + 1) * 400

\* "{provider} / {model} => [{class}] {msg}"
ErrorEntry(r, class, msg) ==
    <<RouteProvider(r), " / ">> \o RouteModel(r) \o <<" => [", class, "] ">> \o msg

\* the errors vector after a failed attempt: pushed to only when the route
\* is given up
ErrorsAfterFailure_EveryAttempt(errors, entry, retry) == Append(errors, entry)
ErrorsAfterFailure(errors, entry, retry) ==
    IF retry THEN errors ELSE Append(errors, entry)

\* the Err prompt_with_fallback returns after the for loop
AllFailed(errors) ==
    IF errors = <<>> THEN <<"No provider routes configured.">>
    ELSE <<"All provider/model attempts failed:", NL>> \o Join(errors, <<NL>>)

\* results of one prompt_with_history call
AttemptResults ==
    {[ok |-> TRUE, msg |-> <<"ok">>]} \cup {[ok |-> FALSE, msg |-> m] : m \in FailureMessages}

\* what a completion call leaves alone
FallbackFrame ==
    UNCHANGED <<fileVars, cacheVars, vecVars, mode, pipelineOk, consumed, permits, turn,
                sessionLock, histories, watermarks, sumTask, wmLog, lastUpdate, fnCall>>

NoCompletion ==
    [pc |-> "idle", routes |-> 0, route |-> 0, attempt |-> 0, errors |-> <<>>,
     log |-> <<>>, result |-> <<>>]

FallbackInit ==
    completion \in {[NoCompletion EXCEPT !.pc = "start", !.routes = n] : n \in 0..MaxRoutes}

\* the for loop is entered, or skipped when no route is configured
FbEnter ==
    /\ completion.pc = "start"
    /\ completion' =
          IF completion.routes = 0
          THEN [completion EXCEPT !.pc = "done",
                   !.result = <<[ok |-> FALSE, text |-> AllFailed(<<>>)]>>]
          ELSE [completion EXCEPT !.pc = "call", !.route = 1, !.attempt = 0]
    /\ UNCHANGED <<outbound, lastSearch>>
    /\ FallbackFrame

\* route.agent.prompt_with_history returned res
FbAttempt(res) ==
    /\ completion.pc = "call"
    /\ LET c == completion
           class == classify_failure(res.msg)
           retry == should_retry_same_route(class, c.attempt)
           errors == ErrorsAfterFailure(c.errors, ErrorEntry(c.route, class, res.msg), retry)
           entry == [route |-> c.route, attempt |-> c.attempt, ok |-> res.ok,
                     msg |-> res.msg,
                     backoff_ms |-> IF ~res.ok /\ retry THEN BackoffMs(c.attempt) ELSE 0]
       IN  completion' =
              IF res.ok
              THEN [c EXCEPT !.pc = "done", !.log = Append(c.log, entry),
                             !.result = <<[ok |-> TRUE, text |-> res.msg]>>]
              ELSE IF retry
              THEN [c EXCEPT !.pc = "sleep", !.errors = errors, !.log = Append(c.log, entry)]
              ELSE IF c.route < c.routes
              THEN [c EXCEPT !.route = c.route + 1, !.attempt = 0, !.errors = errors,
                             !.log = Append(c.log, entry)]
              ELSE [c EXCEPT !.pc = "done", !.errors = errors,
                             !.log = Append(c.log, entry),
                             !.result = <<[ok |-> FALSE, text |-> AllFailed(errors)]>>]
    /\ UNCHANGED <<outbound, lastSearch>>
    /\ FallbackFrame

\* tokio::time::sleep(backoff_ms) is over: attempt += 1; continue
FbSleep ==
    /\ completion.pc = "sleep"
    /\ completion' = [completion EXCEPT !.pc = "call", !.attempt = completion.attempt + 1]
    /\ UNCHANGED <<outbound, lastSearch>>
    /\ FallbackFrame

\* process_message after prompt_with_fallback returned, for a message of a
\* user: the reply or the error reply is published
FbPublish ==
    /\ completion.pc = "done"
    /\ LET r == completion.result[1]
       IN  outbound' = Append(outbound,
              [channel |-> <<"t", "g">>, chat_id |-> <<"1">>,
               content |-> IF r.ok THEN r.text
                           ELSE <<"Sorry, I encountered an error: ">> \o r.text])
    /\ completion' = [completion EXCEPT !.pc = "published"]
    /\ UNCHANGED lastSearch
    /\ FallbackFrame

FallbackNext ==
    \/ FbEnter
    \/ \E res \in AttemptResults : FbAttempt(res)
    \/ FbSleep
    \/ FbPublish

(***************************************************************************)
(* memory_search tool: tools/memory.rs                                     *)
(***************************************************************************)
\* args.max_results.min(20)
MAX_TOOL_RESULTS == 20

\* collect_memory_file_sources: MEMORY.md if it is not empty, then the dated
\* files, newest first, that are not blank
CollectMemoryFileSources(long_term, dated) ==
    (IF long_term # <<>>
     THEN <<[path |-> "memory/MEMORY.md", content |-> long_term]>> ELSE <<>>)
      \o SelectSeq(dated, LAMBDA f : Trim(f.content) # <<>>)

\* line.to_lowercase().contains(&q_lower) && !line.trim().is_empty()
LineMatches(line, q_lower) ==
    /\ q_lower = <<>> \/ \E k \in 1..Len(line) : Lower(line[k]) = q_lower[1]
    /\ Trim(line) # <<>>

RECURSIVE ScanLines(_, _, _, _, _)
\* the inner loop over the lines of one file: a matching line is pushed, and
\* the loop over this file's lines ends when results.len() >= max_results
ScanLines(path, lines, q_lower, results, max_results) ==
    IF lines = <<>> THEN results
    ELSE IF LineMatches(Head(lines), q_lower)
         THEN LET pushed == Append(results,
                              [path |-> path, snippet |-> Trim(Head(lines)),
                               memory_id |-> <<>>])
              IN  IF Len(pushed) >= max_results THEN pushed
                  ELSE ScanLines(path, Tail(lines), q_lower, pushed, max_results)
         ELSE ScanLines(path, Tail(lines), q_lower, results, max_results)

RECURSIVE ScanSources(_, _, _, _)
\* the outer loop `for (path, content) in sources`
ScanSources(sources, q_lower, results, max_results) ==
    IF sources = <<>> THEN results
    ELSE ScanSources(Tail(sources), q_lower,
             ScanLines(Head(sources).path, Lines(Head(sources).content), q_lower,
                       results, max_results),
             max_results)

\* files of the memory directory
ToolLongFile == [k \in 1..(2 * MAX_TOOL_RESULTS + 1) |->
                    IF k % 2 = 1 THEN "I prefer tea." ELSE NL]
ToolContents ==
    {<<>>, <<SP, NL>>, <<"I prefer tea.">>,
     <<"I PREFER TEA.", NL, SP, NL, SP, "I prefer tea.", SP, NL, "I live in Oslo.">>}
ToolDated ==
    {<<>>} \cup {<<[path |-> "memory/2026-01-02.md", content |-> c]>> :
                    c \in ToolContents \ {<<>>}}
       \cup {<<[path |-> "memory/2026-01-02.md", content |-> c],
               [path |-> "memory/2026-01-01.md", content |-> <<"I prefer tea.">>]>> :
                    c \in ToolContents \ {<<>>}}
ToolQueries == {<<>>, <<"I prefer tea.">>, <<"I PREFER TEA.">>, <<"I live in Oslo.">>}
ToolMaxResults == {0, 1, 2, 6, MAX_TOOL_RESULTS + 5}
ToolNamespaces == {<<>>, <<<<SP>>>>, <<NsA>>}

\* a call of memory_search on a tool built without (Simple) or with (Smart) a
\* vector store
ToolInit ==
    /\ memoryFile \in ToolContents \cup {ToolLongFile}
    /\ fileLock = NoHolder
    /\ writer = [w \in Writers |-> WriterIdle]
    /\ \E smart \in BOOLEAN, dated \in ToolDated, query \in ToolQueries,
          max_results \in ToolMaxResults, namespace \in ToolNamespaces :
          /\ smart \/ namespace = <<>>
          /\ smart => dated = <<>> /\ query # <<>>
          /\ fnCall = [fn |-> "memory_search", pc |-> "called", smart |-> smart,
                       dated |-> dated, query |-> query, args_max_results |-> max_results,
                       namespace |-> namespace, error |-> FALSE, results |-> <<>>]
    /\ vecRows = IF fnCall.smart THEN SearchInitRows ELSE {}
    /\ maxMemories = MaxMaxMemories
    /\ clock = 1
    /\ nextId = 1
    /\ evicted = {}
    /\ lastAdd = NoAdd

\* MemorySearchTool::call
MemorySearchCall(clientOk) ==
    /\ fnCall.fn = "memory_search"
    /\ fnCall.pc = "called"
    /\ LET max_results == IF fnCall.args_max_results < MAX_TOOL_RESULTS
                          THEN fnCall.args_max_results ELSE MAX_TOOL_RESULTS
           returned == [fnCall EXCEPT !.pc = "returned"]
       IN  IF fnCall.smart
           THEN IF fnCall.namespace = <<>> \/ Trim(fnCall.namespace[1]) = <<>>
                THEN /\ fnCall' = [returned EXCEPT !.error = TRUE]
                     /\ UNCHANGED <<vecRows, cacheEntries, cacheCounter>>
                ELSE LET ns == ValidateNamespace(fnCall.namespace[1])
                         e == Embed(cacheEntries, cacheCounter, fnCall.query, clientOk)
                     IN  /\ cacheEntries' = e.entries
                         /\ cacheCounter' = e.counter
                         /\ IF e.ok
                            THEN \E res \in SearchSeqs(vecRows, e.embedding, max_results,
                                                       0, ns[1], 3) :
                                   /\ vecRows' = BumpAccess(vecRows, Range(res))
                                   /\ fnCall' = [returned EXCEPT !.results =
                                        [k \in 1..Len(res) |->
                                            [path |-> "vector", snippet |-> res[k].content,
                                             memory_id |-> <<res[k].id>>]]]
                            ELSE /\ vecRows' = vecRows
                                 /\ fnCall' = [returned EXCEPT !.error = TRUE]
           ELSE /\ fnCall' = [returned EXCEPT !.results =
                     ScanSources(CollectMemoryFileSources(memoryFile, fnCall.dated),
                                 [k \in 1..Len(fnCall.query) |-> Lower(fnCall.query[k])],
                                 <<>>, max_results)]
                /\ UNCHANGED <<vecRows, cacheEntries, cacheCounter>>
    /\ UNCHANGED <<fileVars, maxMemories, clock, nextId, evicted, lastAdd, cacheLast,
                   agentVars, completion, lastSearch, lastUpdate>>

ToolNext == \E clientOk \in BOOLEAN : MemorySearchCall(clientOk)

(***************************************************************************)
(* Specifications of the stores, each with the rest of the system at rest  *)
(***************************************************************************)
CacheEmpty ==
    /\ cacheEntries = NoEntries
    /\ cacheCounter = 0
    /\ cacheLast = [key |-> NoKey, before |-> NoEntries, start |-> 0]

FileAtRest ==
    /\ memoryFile = <<>>
    /\ fileLock = NoHolder
    /\ writer = [w \in Writers |-> WriterIdle]

VecAtRest ==
    /\ vecRows = {}
    /\ maxMemories = MaxMaxMemories
    /\ clock = 1
    /\ nextId = 1
    /\ evicted = {}
    /\ lastAdd = NoAdd

NoCall == [fn |-> "none"]

AuxAtRest ==
    /\ completion = NoCompletion
    /\ lastSearch = NoSearch
    /\ lastUpdate = NoUpdate
    /\ fnCall = NoCall

AgentAtRest ==
    /\ mode = "None"
    /\ pipelineOk = FALSE
    /\ consumed = 0
    /\ permits = 0
    /\ turn = <<>>
    /\ sessionLock = <<>>
    /\ histories = <<>>
    /\ watermarks = <<>>
    /\ sumTask = <<>>
    /\ outbound = <<>>
    /\ wmLog = <<>>

(***************************************************************************)
(* File store claims                                                       *)
(***************************************************************************)
AllWritersDone == \A w \in Writers : writer[w].pc = "done"

\* how many lines of the section under `header` are exactly `line`
EntryCount(file, header, line) ==
    LET body == Lines(SectionBody(file, header))
    IN  Cardinality({i \in 1..Len(body) : body[i] = line})

\* C4: when the concurrent callers have all returned, MEMORY.md holds the
\* entry of every caller exactly once, as a line of the section the caller
\* appended to.
C4_ConcurrentAppendsAllKept ==
    AllWritersDone =>
        \A w \in Writers :
            EntryCount(memoryFile, writer[w].call.header, writer[w].call.entries[1]) = 1

\* all three callers appended to Extracted Notes and all three lines are there
C4_Witness ==
    /\ AllWritersDone
    /\ \A w \in Writers : writer[w].call.header = EXTRACTED_SECTION_HEADER
    /\ Len(Lines(SectionBody(memoryFile, EXTRACTED_SECTION_HEADER))) >= NumWriters

(***************************************************************************)
(* Embedding cache claims                                                  *)
(***************************************************************************)
\* the keys of the n entries with the smallest insert_order
OldestKeys(entries, n) ==
    {e.key : e \in {e \in entries :
        Cardinality({f \in entries : f.insert_order < e.insert_order}) < n}}

\* C7: the cache never holds more than MAX_CACHE_ENTRIES entries; an insert
\* that found the cache at capacity removed exactly the MAX_CACHE_ENTRIES / 4
\* keys with the smallest insert_order (every key when that is 0) and no
\* other key, and the inserted key is cached afterwards with the newest
\* insert_order.
C7_CacheBoundedOldestQuarterEvicted ==
    /\ CacheLen(cacheEntries) <= MAX_CACHE_ENTRIES
    /\ cacheLast.key # NoKey =>
        /\ \E e \in cacheEntries :
              e.key = cacheLast.key /\ e.insert_order = cacheCounter
        /\ CacheLen(cacheLast.before) >= MAX_CACHE_ENTRIES =>
              LET q == MAX_CACHE_ENTRIES \div 4
                  gone == CacheKeysOf(cacheLast.before) \ CacheKeysOf(cacheEntries)
                  oldest == IF q = 0 THEN CacheKeysOf(cacheLast.before)
                            ELSE OldestKeys(cacheLast.before, q)
              IN  gone = oldest \ {cacheLast.key}

\* an insert found the cache full and a quarter of it is gone
C7_Witness ==
    /\ cacheLast.key # NoKey
    /\ CacheLen(cacheLast.before) = MAX_CACHE_ENTRIES
    /\ CacheLen(cacheEntries) = MAX_CACHE_ENTRIES - MAX_CACHE_ENTRIES \div 4 + 1

(***************************************************************************)
(* Vector store claims                                                     *)
(***************************************************************************)
AddReturnedOk == lastAdd.pc \in {"returned", "got"} /\ lastAdd.result = "Ok"

\* C5: the get that follows an add that returned Ok(item) returns a row with
\* the content, metadata and priority of item.
C5_AddThenGetReturnsItem ==
    lastAdd.pc = "got" =>
        /\ lastAdd.got # <<>>
        /\ lastAdd.got[1].content = lastAdd.item[1].content
        /\ lastAdd.got[1].metadata = lastAdd.item[1].metadata
        /\ lastAdd.got[1].priority = lastAdd.item[1].priority

Min(a, b) == IF a < b THEN a ELSE b
Max(a, b) == IF a > b THEN a ELSE b

\* rows ever stored in a namespace: those still there and those pruned
EverIn(ns) == RowsOf(vecRows \cup evicted, ns)

\* C6: an add that takes the namespace to count rows deletes exactly
\* count - max_memories of them when count > max_memories and none otherwise,
\* so that min(count, max_memories) remain; a namespace that has had an add
\* holds min(rows ever stored, max_memories) rows; and no row of a namespace
\* sorts before a row pruned from it in (priority, updated_at) order.
C6_PruneKeepsHighest ==
    /\ AddReturnedOk =>
        LET count == lastAdd.countBefore + 1
        IN  /\ Cardinality(lastAdd.deleted) = Max(0, count - maxMemories)
            /\ Cardinality(RowsOf(vecRows, lastAdd.namespace)) = Min(count, maxMemories)
    /\ \A ns \in {r.namespace : r \in vecRows \cup evicted} :
          (\E r \in EverIn(ns) : r.id > 0) =>
              Cardinality(RowsOf(vecRows, ns)) = Min(Cardinality(EverIn(ns)), maxMemories)
    /\ \A r \in vecRows : \A e \in evicted :
          r.namespace = e.namespace => ~RowLower(r, e)

\* max_memories + 1 or more rows went into a namespace that keeps at least one
C6_Witness ==
    /\ AddReturnedOk
    /\ maxMemories >= 1
    /\ lastAdd.deleted # {}
    /\ Cardinality(RowsOf(vecRows, lastAdd.namespace)) = maxMemories
    /\ \E e \in evicted : e.id > 0

(***************************************************************************)
(* Agent loop claims                                                       *)
(***************************************************************************)
\* C1: for every session key the value stored in the summary-watermark map
\* never decreases: of two writes of one session's watermark, the later one
\* does not store a smaller value than the earlier one
C1_WatermarkNeverDecreases ==
    \A a \in 1..Len(wmLog) : \A b \in 1..Len(wmLog) :
        (a < b /\ wmLog[a].session_key = wmLog[b].session_key)
            => wmLog[a].value <= wmLog[b].value

IsPrefix(p, h) == Len(p) <= Len(h) /\ SubSeq(h, 1, Len(p)) = p

\* C2: the stored history of every session is append-only: whatever a step
\* does, also the completion of a turn whose history for the model was
\* compacted, every message stored before is afterwards at the same index
C2_StoredHistoryAppendOnly ==
    [][\A s \in Sessions : IsPrefix(histories[s], histories'[s])]_vars

\* a turn that worked on a compacted copy has completed and its exchange was
\* appended to the stored history, which is longer than the threshold
C2_Witness ==
    \E i \in Msgs :
        /\ turn[i].pc \in {"publish", "done"}
        /\ turn[i].compacted
        /\ Len(histories[SessionKey(turn[i].msg)]) > CompactThreshold

InTurn(i) == turn[i].pc \in {"prompt", "llm"}

\* C3: at no time are two turns of one session both between prompt build
\* and history append, and the history a turn read for its completion call
\* is still the stored history of its session while the call is out
C3_SessionTurnsSerialized ==
    /\ \A i \in Msgs : \A j \in Msgs :
          (i # j /\ InTurn(i) /\ InTurn(j))
              => SessionKey(turn[i].msg) # SessionKey(turn[j].msg)
    /\ \A i \in Msgs :
          turn[i].pc = "llm"
              => turn[i].history_for_llm
                    = BuildHistoryForLlm(histories[SessionKey(turn[i].msg)]).history

\* a turn waits for the lock of its session while another turn of the same
\* session is in its completion call
C3_Witness ==
    \E i \in Msgs : \E j \in Msgs :
        /\ i # j
        /\ SessionKey(turn[i].msg) = SessionKey(turn[j].msg)
        /\ turn[i].pc = "llm"
        /\ turn[j].pc = "lock"

\* C8: the step in which the summarizer call of a task returns an error
\* ends the task, writes nothing to MEMORY.md or the vector store, and
\* leaves every watermark as it was
C8_SummarizerErrorWritesNothing ==
    [][\A i \in Msgs :
          (sumTask[i].pc = "summarize" /\ sumTask'[i].result = "err")
              => /\ sumTask'[i].pc = "done"
                 /\ sumTask'[i].appends = <<>>
                 /\ sumTask'[i].wrote = <<>>
                 /\ watermarks' = watermarks
                 /\ memoryFile' = memoryFile
                 /\ vecRows' = vecRows]_vars

\* the summarizer failed in one task, and a later task of the same session
\* is summarizing from the same watermark
C8_Witness ==
    \E i \in Msgs : \E j \in Msgs :
        /\ sumTask[i].result = "err"
        /\ sumTask[i].pc = "done"
        /\ sumTask[j].pc = "summarize"
        /\ sumTask[j].session_key = sumTask[i].session_key
        /\ Len(sumTask[j].messages) > Len(sumTask[i].messages)
        /\ sumTask[j].start_index = sumTask[i].start_index

\* C9: a task in which the summarizer failed, or in which the embedding or
\* the database call of the vector insert failed, has not written the
\* watermark of its session
C9_BackendErrorLeavesWatermark ==
    \A i \in Msgs :
        (sumTask[i].result = "err" \/ sumTask[i].vec \in {"embed_failed", "db_failed"})
            => sumTask[i].wrote = <<>>

Repeat(x, n) == [k \in 1..n |-> x]

\* C10: a task whose summarizer returned a summary with text writes the
\* watermark only after it has appended the summary to Conversation
\* Observations and to Extracted Notes, appended the at most 3 user
\* observations, and called the vector insert under the namespace of its
\* session; the value it writes is the length of its history snapshot
C10_WatermarkAfterSummaryWrites ==
    \A i \in Msgs :
        LET t == sumTask[i]
            obs == ExtractUserObservations(t.content, 3)
            entry == DatedBullet(Trim(t.content))
        IN  t.result = "stored" =>
              /\ Len(obs) <= 3
              /\ t.pc \in {"conversation_observation", "extracted_facts",
                           "user_observation", "vector", "watermark"}
                    => t.wrote = <<>>
              /\ t.wrote # <<>> =>
                    /\ t.wrote = <<Len(t.messages)>>
                    /\ t.appends = <<"conversation_observation", "extracted_facts">>
                                      \o Repeat("user_observation", Len(obs))
                    /\ Find(SectionBody(memoryFile, CONVERSATION_OBSERVATIONS_SECTION_HEADER),
                            entry) # NoMatch
                    /\ Find(SectionBody(memoryFile, EXTRACTED_SECTION_HEADER),
                            DatedBullet(t.content)) # NoMatch
                    /\ \A k \in 1..Len(obs) :
                          Find(SectionBody(memoryFile, USER_OBSERVATIONS_SECTION_HEADER),
                               DatedBullet(obs[k])) # NoMatch
                    /\ t.vec \in {"ok", "embed_failed", "db_failed"}
                    /\ t.vec = "ok" =>
                          \E r \in vecRows \cup evicted :
                              /\ r.content = Trim(t.content)
                              /\ r.namespace = SessionNamespace(t.session_key)
                              /\ r.metadata.end_index = Len(t.messages)

\* a task stored a summary that holds four observations of the user: three
\* were appended, the vector insert succeeded, the watermark is written
C10_Witness ==
    \E i \in Msgs :
        /\ sumTask[i].result = "stored"
        /\ sumTask[i].wrote # <<>>
        /\ sumTask[i].vec = "ok"
        /\ Len(ExtractUserObservations(sumTask[i].content, 3)) = 3
        /\ Len(ExtractUserObservations(sumTask[i].content, 5)) = 4


\* C11: the step in which the summarizer of a task returns no summary, or
\* a summary whose text is blank, ends the task, sets the watermark of the
\* session to the length of the task's snapshot, and writes nothing to
\* MEMORY.md or the vector store
C11_NoSummaryAdvancesWatermarkOnly ==
    [][\A i \in Msgs :
          (sumTask[i].pc = "summarize" /\ sumTask'[i].result \in {"none", "empty"})
              => /\ sumTask'[i].pc = "done"
                 /\ sumTask'[i].appends = <<>>
                 /\ sumTask'[i].vec = ""
                 /\ watermarks'[sumTask[i].session_key] = <<Len(sumTask[i].messages)>>
                 /\ \A s \in Sessions :
                       s # sumTask[i].session_key => watermarks'[s] = watermarks[s]
                 /\ memoryFile' = memoryFile
                 /\ vecRows' = vecRows]_vars

\* a task got a summary of blank text: it is done and the watermark of its
\* session is the length of its snapshot
C11_Witness ==
    \E i \in Msgs :
        /\ sumTask[i].result = "empty"
        /\ sumTask[i].pc = "done"
        /\ Len(sumTask[i].messages) >= 6
        /\ watermarks[sumTask[i].session_key] = <<Len(sumTask[i].messages)>>

\* user messages of the snapshot at indices at or after the watermark
UserTurnsSince(messages, start_index) ==
    Cardinality({k \in 1..Len(messages) : k > start_index /\ messages[k].role = "user"})

\* C12: a task that starts when the watermark is at or beyond the length of
\* its snapshot, or when fewer than 3 user messages of the snapshot lie at
\* or after the watermark, ends in that step: it does not call the
\* summarizer, writes to no store and leaves every watermark as it was
C12_NoTriggerNoEffect ==
    [][\A i \in Msgs :
          LET t == sumTask[i]
              wm == WatermarkOf(watermarks, t.session_key)
          IN  (/\ t.pc = "start"
               /\ sumTask'[i].pc # "start"
               /\ \/ wm >= Len(t.messages)
                  \/ UserTurnsSince(t.messages, wm) < SUMMARY_TRIGGER_USER_TURNS)
                  => /\ sumTask'[i].pc = "done"
                     /\ sumTask'[i].appends = <<>>
                     /\ sumTask'[i].wrote = <<>>
                     /\ sumTask'[i].vec = ""
                     /\ watermarks' = watermarks
                     /\ memoryFile' = memoryFile
                     /\ vecRows' = vecRows]_vars

\* a task found the watermark inside its snapshot with fewer than 3 user
\* messages after it, although the whole snapshot holds more than 3
C12_Witness ==
    \E i \in Msgs :
        /\ sumTask[i].result = "skipped"
        /\ sumTask[i].pc = "done"
        /\ sumTask[i].start_index > 0
        /\ sumTask[i].start_index < Len(sumTask[i].messages)
        /\ UserTurns(sumTask[i].messages) > SUMMARY_TRIGGER_USER_TURNS

\* two tasks of one session that read the same watermark and both got a
\* summary with text
RacingPair(i, j) ==
    /\ i # j
    /\ sumTask[i].session_key = sumTask[j].session_key
    /\ sumTask[i].result = "stored"
    /\ sumTask[j].result = "stored"
    /\ sumTask[i].start_index = sumTask[j].start_index

\* the first line of the bullet a summary makes in a section
FirstEntryLine(content) == Lines(DatedBullet(Trim(content)))[1]

\* C13: summarization tasks of one session do not exclude one another and
\* nothing removes duplicates: when two tasks of a session read the same
\* watermark and both persisted a summary, the messages from that watermark
\* to the end of the shorter snapshot were given to both summarizer calls,
\* MEMORY.md holds a conversation observation of each (two equal bullets
\* when the summaries are equal), and each vector insert that succeeded
\* made a row of its own
C13_RacingTasksBothPersist ==
    \A i \in Msgs : \A j \in Msgs :
        (RacingPair(i, j) /\ sumTask[i].wrote # <<>> /\ sumTask[j].wrote # <<>>
            /\ Len(sumTask[i].messages) <= Len(sumTask[j].messages))
            => /\ IsPrefix(sumTask[i].messages, sumTask[j].messages)
               /\ sumTask[i].window = From(sumTask[i].messages, 0)
               /\ IsPrefix(sumTask[i].window, sumTask[j].window)
               /\ sumTask[i].content = sumTask[j].content
                     => EntryCount(memoryFile, CONVERSATION_OBSERVATIONS_SECTION_HEADER,
                                   FirstEntryLine(sumTask[i].content)) >= 2
               /\ (sumTask[i].vec = "ok" /\ sumTask[j].vec = "ok")
                     => \E r1 \in vecRows \cup evicted : \E r2 \in vecRows \cup evicted :
                           /\ r1.id # r2.id
                           /\ r1.content = Trim(sumTask[i].content)
                           /\ r2.content = Trim(sumTask[j].content)
                           /\ r1.namespace = r2.namespace
                           /\ r1.metadata.start_index = r2.metadata.start_index

\* two tasks spawned by successive turns of one session read the same
\* watermark, both stored the same summary in MEMORY.md and in the vector
\* store, and both wrote the watermark
C13_Witness ==
    \E i \in Msgs : \E j \in Msgs :
        /\ RacingPair(i, j)
        /\ Len(sumTask[i].messages) < Len(sumTask[j].messages)
        /\ sumTask[i].wrote # <<>>
        /\ sumTask[j].wrote # <<>>
        /\ sumTask[i].vec = "ok"
        /\ sumTask[j].vec = "ok"
        /\ EntryCount(memoryFile, CONVERSATION_OBSERVATIONS_SECTION_HEADER,
                      FirstEntryLine(sumTask[i].content)) = 2

\* the turns that hold a permit: spawned and not yet past drop(permit)
InFlight == {i \in DOMAIN turn : turn[i].pc \in {"lock", "prompt", "llm", "publish"}}

\* a turn that holds a permit and only waits for the lock of its session,
\* which another turn holds
WaitsForHeldLock(i) ==
    /\ turn[i].pc = "lock"
    /\ sessionLock[SessionKey(turn[i].msg)] # <<>>

\* C14: a consumed message whose session has no turn in flight starts as
\* soon as fewer than 4 turns are executing: while it waits for a permit,
\* no permit is held by a turn that merely waits for the lock of another
\* session
C14_LockWaitersNeverDelayOtherSession ==
    \A j \in DOMAIN turn :
        (/\ turn[j].pc = "permit"
         /\ \A i \in InFlight : SessionKey(turn[i].msg) # SessionKey(turn[j].msg)
         /\ ~PermitAvailable(permits))
            => \A i \in InFlight : ~WaitsForHeldLock(i)

\* C15: at most 4 messages are in flight, the semaphore holds one permit
\* for each of the 4 that is not, and a turn that ended holds none, whether
\* it published a reply, an error reply or nothing
C15_AtMostFourInFlight ==
    /\ Cardinality(InFlight) <= SEMAPHORE_PERMITS
    /\ permits = SEMAPHORE_PERMITS - Cardinality(InFlight)
    /\ \A i \in DOMAIN turn : turn[i].pc = "done" => i \notin InFlight

\* a turn ended without a reply (cron), the permit it gave back was taken by
\* the fifth message, and four turns are in flight again
C15_Witness ==
    /\ Cardinality(InFlight) = SEMAPHORE_PERMITS
    /\ permits = 0
    /\ consumed = SEMAPHORE_PERMITS + 1
    /\ \E i \in DOMAIN turn :
          /\ turn[i].pc = "done"
          /\ turn[i].msg.sender_id = "cron"
          /\ turn[i].out = <<>>

\* offsets at which a heading line starts: "## " at the start of a line
HeadingStarts(file) ==
    {i \in 0..(Len(file) - 1) : file[i + 1] = H2 /\ (i = 0 \/ file[i] = NL)}

RECURSIVE TrimEndNL(_)
TrimEndNL(s) == IF s # <<>> /\ s[Len(s)] = NL THEN TrimEndNL(Upto(s, Len(s) - 1)) ELSE s

\* the section that starts at heading offset i: its heading line and its body
\* up to the next heading or the end of the file, without the newlines that
\* separate it from what follows
SectionText(file, i) ==
    LET later == {j \in HeadingStarts(file) : j > i}
        end == IF later = {} THEN Len(file) ELSE CHOOSE j \in later : \A k \in later : j <= k
    IN  TrimEndNL(SubSeq(file, i + 1, end))

HeadingOf(file, i) == Lines(SectionText(file, i))[1]

\* the lines of a section that are not its heading and not blank
BodyLines(file, i) ==
    LET ls == Tail(Lines(SectionText(file, i)))
    IN  SelectSeq(ls, LAMBDA l : l # <<>>)

\* the append_section_entries call of thread w has written the file
Wrote(w) == writer[w].pc = "unlock"

\* C16: after append_section_entries for one header every other section of
\* the document read is in the document written, heading and body
\* unchanged, and the target section holds its previous lines in their
\* order (without the oldest ones a limit removed) followed by the new
\* entries
C16_OtherSectionsUnchanged ==
    \A w \in Writers :
        Wrote(w) =>
            LET old == writer[w].existing
                call == writer[w].call
                olds == {i \in HeadingStarts(old) : HeadingOf(old, i) = call.header}
                news == {j \in HeadingStarts(memoryFile) :
                            HeadingOf(memoryFile, j) = call.header}
            IN  /\ \A i \in HeadingStarts(old) \ olds :
                      \E j \in HeadingStarts(memoryFile) :
                          SectionText(memoryFile, j) = SectionText(old, i)
                /\ \E j \in news :
                      \E k \in 0..Len(old) :
                          LET kept == IF olds = {} THEN <<>>
                                      ELSE BodyLines(old, CHOOSE i \in olds : TRUE)
                          IN  /\ k <= Len(kept)
                              /\ (call.limit = <<>> => k = 0)
                              /\ BodyLines(memoryFile, j) = From(kept, k) \o call.entries

\* C17: after append_section_entries with max_section_chars set, the body of
\* the section is at most max_section_chars characters long
C17_SectionBodyWithinLimit ==
    \A w \in Writers :
        (Wrote(w) /\ writer[w].call.limit # <<>>)
            => StrLen(SectionBody(memoryFile, writer[w].call.header))
                  <= writer[w].call.limit[1]

\* the lines of a text that are not blank
NonBlankLines(text) == SelectSeq(Lines(text), LAMBDA l : l # <<>>)

\* C40: trimming a size-bounded section only removes lines from the front:
\* the lines of the section after an append are a suffix of the lines of the
\* previous body followed by the lines of the new entries, and the last
\* appended line is among them
C40_TrimRemovesFromFrontOnly ==
    \A w \in Writers :
        (Wrote(w) /\ writer[w].call.limit # <<>>) =>
            LET call == writer[w].call
                old == NonBlankLines(SectionBody(writer[w].existing, call.header))
                         \o NonBlankLines(Join(call.entries, <<NL>>))
                new == NonBlankLines(SectionBody(memoryFile, call.header))
            IN  /\ \E k \in 0..Len(old) : new = From(old, k)
                /\ new # <<>>
                /\ new[Len(new)] = old[Len(old)]

\* the completion call is over
CallOver == completion.pc \in {"done", "published"}

\* C18: in the attempts of a completion call, in the order made: the first
\* is attempt 0 of route 1; a failure classified rate_limit, timeout or
\* upstream on attempt 0 or 1 is followed by the next attempt on the same
\* route after a backoff of 400 ms times the attempt number; any other
\* failure, and a failure of the third attempt, is followed without backoff
\* by attempt 0 of the next route; no route gets more than 3 attempts;
\* nothing follows a success, which is what the call returns; and the call
\* returns an error only after the last route was given up
C18_RetrySameRouteThenNextRoute ==
    LET log == completion.log
    IN  /\ log # <<>> => log[1].route = 1 /\ log[1].attempt = 0
        /\ \A k \in 1..Len(log) : log[k].attempt <= PER_ROUTE_MAX_RETRIES
        /\ \A k \in 1..(Len(log) - 1) :
              LET e == log[k]
                  n == log[k + 1]
              IN  /\ ~e.ok
                  /\ IF classify_failure(e.msg) \in {"rate_limit", "timeout", "upstream"}
                        /\ e.attempt < 2
                     THEN /\ n.route = e.route
                          /\ n.attempt = e.attempt + 1
                          /\ e.backoff_ms = 400 * (e.attempt + 1)
                     ELSE /\ n.route = e.route + 1
                          /\ n.attempt = 0
                          /\ e.backoff_ms = 0
        /\ (CallOver /\ log # <<>>) =>
              LET e == log[Len(log)]
              IN  IF e.ok
                  THEN completion.result = <<[ok |-> TRUE, text |-> e.msg]>>
                  ELSE /\ ~completion.result[1].ok
                       /\ e.route = completion.routes
                       /\ \/ e.attempt = 2
                          \/ classify_failure(e.msg) \in {"auth", "request", "unknown"}

\* the first route was tried three times with backoffs of 400 and 800 ms,
\* the second ended after a single auth failure, and the call returned Err
C18_Witness ==
    /\ CallOver
    /\ Len(completion.log) = 4
    /\ \A k \in 1..3 : completion.log[k].route = 1
    /\ completion.log[1].backoff_ms = 400
    /\ completion.log[2].backoff_ms = 800
    /\ completion.log[4].route = 2
    /\ classify_failure(completion.log[4].msg) = "auth"
    /\ ~completion.result[1].ok

\* every configured route failed and the reply was published
AllRoutesFailed ==
    /\ completion.pc = "published"
    /\ completion.routes > 0
    /\ ~completion.result[1].ok

\* the last attempt made on route r
LastAttempt(r) ==
    LET ks == {k \in 1..Len(completion.log) : completion.log[k].route = r}
    IN  completion.log[CHOOSE k \in ks : \A j \in ks : j <= k]

\* C19 as stated: the one error message lists every failed attempt, one entry
\* for each attempt made, retried attempts included
C19_ListsEveryAttempt ==
    AllRoutesFailed =>
        /\ Len(outbound) = 1
        /\ Len(Lines(outbound[1].content)) = 1 + Len(completion.log)

\* C19, amended: if every configured route fails, exactly one message is
\* published for the turn, "Sorry, I encountered an error: All
\* provider/model attempts failed:" followed by one line per route in route
\* order, the line of a route giving provider, model, class and error text
\* of the last attempt on that route; attempts that were retried are not
\* listed
C19_ListsLastAttemptOfEachRoute ==
    /\ Len(outbound) <= 1
    /\ AllRoutesFailed =>
          LET entries == [r \in 1..completion.routes |->
                            ErrorEntry(r, classify_failure(LastAttempt(r).msg),
                                       LastAttempt(r).msg)]
          IN  /\ Len(outbound) = 1
              /\ outbound[1].content =
                    <<"Sorry, I encountered an error: ",
                      "All provider/model attempts failed:", NL>> \o Join(entries, <<NL>>)
              /\ Len(Lines(outbound[1].content)) = 1 + completion.routes

\* both routes failed, one of them after a retry, and the reply is out
C19_Witness ==
    /\ AllRoutesFailed
    /\ completion.routes = MaxRoutes
    /\ Len(completion.log) > completion.routes
    /\ Len(outbound) = 1

BuiltWindow(i) ==
    /\ sumTask[i].pc \notin {"unborn", "start"}
    /\ sumTask[i].result # "skipped"

\* C29: when a task has advanced the watermark from w to n, every message of
\* its snapshot at an index in [w, n) is in the window it gave to the
\* summarizer
C29_AdvancedOnlyOverShownMessages ==
    \A i \in Msgs :
        (BuiltWindow(i) /\ sumTask[i].wrote # <<>>) =>
            \A k \in (sumTask[i].start_index + 1)..sumTask[i].wrote[1] :
                \E j \in 1..Len(sumTask[i].window) :
                    sumTask[i].window[j] = sumTask[i].messages[k]

\* C30: the window given to the summarizer is the snapshot from index
\* max(0, watermark - 6) on, cut to its last 18 messages when longer: it has
\* at most 18 messages, is a suffix of the snapshot and ends with its last
\* message
C30_WindowIsCappedSuffix ==
    \A i \in Msgs :
        BuiltWindow(i) =>
            LET m == sumTask[i].messages
                w == sumTask[i].start_index
                window == sumTask[i].window
                context_start == IF w - 6 > 0 THEN w - 6 ELSE 0
                first == IF Len(m) - context_start > 18 THEN Len(m) - 18 ELSE context_start
            IN  /\ window = SubSeq(m, first + 1, Len(m))
                /\ Len(window) <= 18
                /\ window # <<>>
                /\ window[Len(window)] = m[Len(m)]

\* a window that was cut to 18 messages, of a snapshot whose watermark is
\* more than 6, and a window that starts 6 messages before the watermark
C30_Witness ==
    \E i \in Msgs :
        /\ BuiltWindow(i)
        /\ sumTask[i].start_index > 6
        /\ Len(sumTask[i].messages) - (sumTask[i].start_index - 6) > 18
        /\ Len(sumTask[i].window) = 18
        /\ sumTask[i].result = "stored"

\* what C28 says of every returned line, and of their order
ObservationsWellFormed ==
    LET res == fnCall.result
        lines == Lines(fnCall.text)
    IN  /\ \A k \in 1..Len(res) :
              /\ StrLen(res[k]) >= 12
              /\ StrLen(res[k]) <= 220
              /\ \E j \in 1..Len(res[k]) : HasTrigger(Lower(res[k][j]))
              /\ \A j \in 1..Len(res) : j # k => LowerStr(res[j]) # LowerStr(res[k])
        /\ \E f \in [1..Len(res) -> 1..Len(lines)] :
              /\ \A k \in 1..Len(res) : res[k] = Trim(lines[f[k]])
              /\ \A k \in 1..(Len(res) - 1) : f[k] < f[k + 1]

ExtractReturned ==
    fnCall.fn = "extract_user_observations" /\ fnCall.pc = "returned"

DerivedFrom(out, input) ==
    LET n == IF Len(input) > 64 THEN 64 ELSE Len(input)
    IN  /\ Len(out) >= 1
        /\ Len(out) <= 64
        /\ \A k \in 1..Len(out) : IsNamespaceChar(out[k])
        /\ IF n = 0 THEN out = <<"d", "e", "f", "a", "u", "l", "t">>
           ELSE /\ Len(out) = n
                /\ \A k \in 1..n :
                      out[k] = IF IsNamespaceChar(input[k]) THEN input[k]
                               ELSE "_"

NamespaceReturned == fnCall.fn = "namespace" /\ fnCall.pc = "returned"

C39_SessionNamespaceIsFixedPoint ==
    NamespaceReturned => fnCall.addressed = <<fnCall.session>>

\* a session key longer than NAMESPACE_MAX_LEN made of characters that are
\* replaced
C39_Witness ==
    /\ NamespaceReturned
    /\ Len(fnCall.input) > NAMESPACE_MAX_LEN
    /\ fnCall.input[1] = ":"
    /\ Len(fnCall.session) = NAMESPACE_MAX_LEN
    /\ fnCall.addressed = <<fnCall.session>>

\* C22: whenever add returns an error, the rows of the store are the rows
\* it held before the call
C22_FailedAddWritesNothing ==
    [][(lastAdd' # lastAdd /\ lastAdd'.pc = "returned" /\ lastAdd'.result = "Err")
          => vecRows' = vecRows]_vars

\* C27: an update that returns while no row of its id is in its namespace
\* returns None and changes no row (calls rejected with Err aside)
C27_UpdateOfMissingRowIsNone ==
    [][(/\ lastUpdate' # lastUpdate
        /\ lastUpdate'.pc = "returned"
        /\ lastUpdate'.result # "Err"
        /\ VecGet(vecRows, lastUpdate'.memory_id, lastUpdate'.namespace) = <<>>)
          => lastUpdate'.result = "None" /\ vecRows' = vecRows]_vars

\* similarity of the query of the last search to the rows of the scenario
RankSimilarity == CosineSimilarity(lastSearch.query_embedding, EmbeddingOf(RankContent))

\* C21: with the three items of importance 0.9, 0.5 and 0.1 and identical
\* embeddings stored in a namespace that was empty, a search of that namespace
\* with priority_weight 1.0 returns them in the order 0.9, 0.5, 0.1 whatever
\* the query: the first top_k of that order, all three when top_k >= 3 (no
\* item when the similarity of the query is below the threshold)
C21_RankedByImportance ==
    (lastSearch.ok /\ lastSearch.priority_weight = 10) =>
        LET res == lastSearch.result
            n == IF RankSimilarity < lastSearch.threshold THEN 0
                 ELSE IF lastSearch.top_k < 3 THEN lastSearch.top_k ELSE 3
        IN  /\ Len(res) = n
            /\ \A k \in 1..Len(res) :
                  /\ res[k].metadata.importance = <<(<<9, 5, 1>>)[k]>>
                  /\ res[k].embedding = EmbeddingOf(RankContent)

\* a query unlike the content returned the three items, 0.9 first
C21_Witness ==
    /\ lastSearch.ok
    /\ lastSearch.priority_weight = 10
    /\ RankSimilarity < 100
    /\ Len(lastSearch.result) = 3
    /\ lastSearch.result[1].metadata.importance = <<9>>
    /\ lastSearch.result[3].metadata.importance = <<1>>
    /\ lastSearch.result[1].created_at > lastSearch.result[3].created_at

(***************************************************************************)
(* Prompt building claims                                                  *)
(***************************************************************************)
\* the turn has built its prompt and is at the completion call
AtCompletion(i) == turn[i].pc = "llm"

\* the text after the context header of the prompt of turn i
AfterHeader(i) ==
    SubSeq(turn[i].prompt.text, Len(ContextHeader(turn[i].msg)) + 1,
           Len(turn[i].prompt.text))

\* C23: a turn whose recall failed (embedding or search) is at the completion
\* call with a prompt that starts with the context header, ends with the
\* user message as received and has no session-memory part
C23_FailedRecallOmitsSessionMemory ==
    \A i \in Msgs :
        turn[i].prompt.recall_failed =>
            /\ AtCompletion(i)
            /\ turn[i].prompt.session_memory = {}
            /\ StartsWith(turn[i].prompt.text,
                          <<"[Conversation context]", NL, "channel: ">> \o turn[i].msg.channel)
            /\ EndsWith(turn[i].prompt.text,
                        <<NL, NL, "[User message]", NL>> \o turn[i].msg.content)
            /\ "[Notes from session memory]" \notin Range(turn[i].prompt.text)

\* the search of a turn of session tg:1_2 failed after its query was embedded:
\* the row of its namespace was not recalled, the notes of the file were
C23_Witness ==
    \E i \in Msgs :
        /\ AtCompletion(i)
        /\ turn[i].prompt.recall_failed
        /\ turn[i].msg.chat_id = <<"1", "_", "2">>
        /\ cacheCounter > 0
        /\ \E r \in vecRows : r.id = -1 /\ r.access_count = 0
        /\ "[Notes from memory]" \in Range(turn[i].prompt.text)

\* C24: in memory mode None the prompt of a turn is the context header and
\* the user text as received, nothing is embedded or recalled, no
\* summarization task starts and the two stores stay as they were
C24_NoneModeIsStateless ==
    mode = "None" =>
        /\ \A i \in Msgs :
              /\ sumTask[i].pc = "unborn"
              /\ AtCompletion(i) =>
                    /\ StartsWith(turn[i].prompt.text,
                          <<"[Conversation context]", NL, "channel: ">>
                              \o turn[i].msg.channel \o <<NL, "chat_id: ">>
                              \o turn[i].msg.chat_id
                              \o <<NL, "sender_id: ", turn[i].msg.sender_id>>)
                    /\ AfterHeader(i) = <<NL, NL, "[User message]", NL>> \o turn[i].msg.content
        /\ memoryFile = RecallFile
        /\ vecRows = RecallInitRows
        /\ cacheCounter = 0
        /\ evicted = {}

\* a turn of session tg:1_2 in mode None is at the completion call after an
\* earlier turn ended, with notes in MEMORY.md and a row in its namespace
C24_Witness ==
    /\ mode = "None"
    /\ memoryFile # <<>>
    /\ \E i \in Msgs :
          /\ AtCompletion(i)
          /\ \E r \in vecRows : r.namespace = SessionNamespace(SessionKey(turn[i].msg))
          /\ \E j \in Msgs : turn[j].pc = "done"

FailedCompletionStep(i) ==
    turn[i].pc = "llm" /\ turn'[i].pc = "publish" /\ ~turn'[i].response_ok

\* the rows with their access counts left out
WithoutAccessCount(rows) == {[r EXCEPT !.access_count = 0] : r \in rows}

ExpectedOutbound(t) ==
    IF t.msg.sender_id = "cron" /\ t.response_ok THEN <<>>
    ELSE <<[channel |-> t.msg.channel, chat_id |-> t.msg.chat_id,
            content |-> IF t.response_ok THEN <<"ok">>
                        ELSE <<"Sorry, I encountered an error: ",
                               "All provider/model attempts failed">>]>>


PublishStep(j) ==
    /\ turn[j].pc = "publish"
    /\ turn'[j].pc = "done"
    /\ turn[j].appended_at > 0
    /\ turn[j].out # <<>>
AppendedBeforeUnpublished(i, j) ==
    /\ i # j
    /\ turn[i].pc = "publish"
    /\ turn[i].appended_at > 0
    /\ turn[i].out # <<>>
    /\ SessionKey(turn[i].msg) = SessionKey(turn[j].msg)
    /\ turn[i].appended_at < turn[j].appended_at
C33_RepliesInAppendOrder ==
    [][\A j \in Msgs : PublishStep(j) =>
          ~ \E i \in Msgs : AppendedBeforeUnpublished(i, j)]_vars

(***************************************************************************)
(* Concurrent embed claims                                                 *)
(***************************************************************************)
EmbedStarts(c) == fnCall.caller[c].pc = "idle" /\ fnCall'.caller[c].pc # "idle"
EmbedCompletesOk(c) ==
    /\ fnCall.caller[c].pc # "done"
    /\ fnCall'.caller[c].pc = "done"
    /\ fnCall'.caller[c].ok
CachedVector(entries, text) == (CHOOSE e \in entries : e.key = text).embedding

\* C34: embed calls the embedding client only on a cache miss. An embed that
\* completes successfully leaves its text cached with the vector it returned;
\* an entry leaves the cache only by the eviction of an insert at capacity;
\* and an embed that starts while its text is cached returns the cached
\* vector without calling the client
C34_ClientCalledOnlyOnMiss ==
    [][/\ \A c \in EmbedCallers :
            /\ EmbedCompletesOk(c) =>
                  /\ fnCall'.caller[c].text \in CacheKeysOf(cacheEntries')
                  /\ CachedVector(cacheEntries', fnCall'.caller[c].text)
                        = fnCall'.caller[c].embedding
            /\ (EmbedStarts(c) /\ fnCall'.caller[c].text \in CacheKeysOf(cacheEntries)) =>
                  /\ fnCall'.caller[c].pc = "done"
                  /\ fnCall'.caller[c].ok
                  /\ ~ fnCall'.caller[c].client_called
                  /\ fnCall'.caller[c].embedding
                        = CachedVector(cacheEntries, fnCall'.caller[c].text)
            /\ (EmbedStarts(c) /\ fnCall'.caller[c].pc = "client") =>
                  fnCall'.caller[c].text \notin CacheKeysOf(cacheEntries)
       /\ (CacheKeysOf(cacheEntries) \ CacheKeysOf(cacheEntries') # {}) =>
            /\ cacheCounter' = cacheCounter + 1
            /\ AtCapacity(CacheLen(cacheEntries))
      ]_vars

\* a second embed of a text that an earlier embed brought into the cache
\* returned the cached vector without calling the client
C34_Witness ==
    /\ fnCall.fn = "embed"
    /\ \E c \in EmbedCallers :
          /\ fnCall.caller[c].pc = "done"
          /\ fnCall.caller[c].ok
          /\ ~ fnCall.caller[c].client_called
          /\ fnCall.caller[c].text = CacheText(MAX_CACHE_ENTRIES + 1)
          /\ fnCall.caller[c].embedding = EmbeddingOf(CacheText(MAX_CACHE_ENTRIES + 1))

\* C35: the insert of a key that is already cached (two concurrent embeds of
\* one uncached text both miss and both insert) replaces that entry and
\* removes no other entry
InsertsCachedKey(c) ==
    /\ fnCall.caller[c].pc = "client"
    /\ fnCall'.caller[c].pc = "done"
    /\ cacheCounter' = cacheCounter + 1
    /\ fnCall.caller[c].text \in CacheKeysOf(cacheEntries)
C35_InsertOfCachedKeyEvictsNothing ==
    [][\A c \in EmbedCallers :
          InsertsCachedKey(c) => CacheKeysOf(cacheEntries') = CacheKeysOf(cacheEntries)]_vars

(***************************************************************************)
(* Search row limit claims                                                 *)
(***************************************************************************)
\* the rows of the searched namespace that come strictly before r
RowsBefore(rows, r) == {q \in RowsOf(rows, r.namespace) : RowBefore(q, r)}
RowById(rows, id) == CHOOSE r \in rows : r.id = id

\* C36: search examines only the first MAX_SEARCH_ROWS rows of the namespace in
\* (priority descending, updated_at descending) order: every returned row has
\* fewer than MAX_SEARCH_ROWS rows strictly before it, the returned rows and all
\* the rows strictly before one of them are at most MAX_SEARCH_ROWS together,
\* and a row that has MAX_SEARCH_ROWS rows strictly before it keeps its
\* access_count
C36_SearchLoadsFirstRowsOnly ==
    lastSearch.ok =>
        LET before == lastSearch.before
            returned == Range(lastSearch.result)
        IN  /\ \A r \in returned :
                  Cardinality(RowsBefore(before, r)) < MAX_SEARCH_ROWS
            /\ Cardinality(returned \cup UNION {RowsBefore(before, r) : r \in returned})
                  <= MAX_SEARCH_ROWS
            /\ \A r \in before :
                  Cardinality(RowsBefore(before, r)) >= MAX_SEARCH_ROWS =>
                      RowById(vecRows, r.id).access_count = r.access_count

\* a search for fact-1 on similarity alone returned two rows while a row of
\* the same similarity lies beyond the rows loaded
C36_Witness ==
    /\ lastSearch.ok
    /\ lastSearch.top_k = 3
    /\ lastSearch.priority_weight = 0
    /\ Len(lastSearch.result) = 2
    /\ \E r \in lastSearch.before :
          /\ Cardinality(RowsBefore(lastSearch.before, r)) >= MAX_SEARCH_ROWS
          /\ r.embedding = lastSearch.query_embedding
          /\ r \notin Range(lastSearch.result)

(***************************************************************************)
(* memory_search claims                                                    *)
(***************************************************************************)
\* C37: memory_search returns at most max_results results, max_results itself
\* capped at MAX_TOOL_RESULTS, in both modes and for every max_results >= 0
C37_SearchResultsBounded ==
    (fnCall.fn = "memory_search" /\ fnCall.pc = "returned") =>
        /\ Len(fnCall.results) <= fnCall.args_max_results
        /\ Len(fnCall.results) <= MAX_TOOL_RESULTS

(***************************************************************************)
(* Namespace frame claims                                                  *)
(***************************************************************************)
\* C38: add into one namespace never deletes or modifies a row of another
\* namespace: a row leaves the table or changes only in the database step of
\* an add into its own namespace
C38_AddLeavesOtherNamespaces ==
    [][\A r \in vecRows :
          (lastAdd.pc # "db" \/ r.namespace # lastAdd.item[1].namespace) =>
              r \in vecRows']_vars

\* an add pruned its namespace while another namespace held more rows than
\* max_memories
C38_Witness ==
    /\ lastAdd.pc = "returned"
    /\ lastAdd.result = "Ok"
    /\ lastAdd.deleted # {}
    /\ \E r \in vecRows :
          /\ r.namespace # lastAdd.namespace
          /\ Cardinality(RowsOf(vecRows, r.namespace)) > maxMemories

(***************************************************************************)
(* Specifications                                                          *)
(***************************************************************************)
InitFile == FileInit /\ CacheEmpty /\ VecAtRest /\ AgentAtRest /\ AuxAtRest
SpecFile == InitFile /\ [][FileNext]_vars

InitCache == CacheInit /\ FileAtRest /\ VecAtRest /\ AgentAtRest /\ AuxAtRest
SpecCache == InitCache /\ [][CacheNext]_vars

InitVec == VecInit /\ CacheEmpty /\ FileAtRest /\ AgentAtRest /\ AuxAtRest
SpecVec == InitVec /\ [][VecNext]_vars

\* the agent loop over empty stores; the vector store keeps MaxMaxMemories rows
\* per namespace
InitAgent == AgentInit /\ FileAtRest /\ CacheEmpty /\ VecAtRest /\ AuxAtRest
SpecAgent == InitAgent /\ [][AgentNext]_vars

\* the turns of an agent without memory, over empty stores
InitTurns == TurnsInit /\ FileAtRest /\ CacheEmpty /\ VecAtRest /\ AuxAtRest
SpecTurns == InitTurns /\ [][TurnsNext]_vars

\* the file store called with any text
InitDoc == FileInit /\ CacheEmpty /\ VecAtRest /\ AgentAtRest /\ AuxAtRest
SpecDoc == InitDoc /\ [][DocNext]_vars

\* one completion call over the configured routes, then the reply
InitFallback ==
    /\ FallbackInit /\ FileAtRest /\ CacheEmpty /\ VecAtRest /\ AgentAtRest
    /\ lastSearch = NoSearch /\ lastUpdate = NoUpdate /\ fnCall = NoCall
SpecFallback == InitFallback /\ [][FallbackNext]_vars

\* searches on a store with memories, the rest at rest
InitSearch ==
    /\ SearchInit /\ FileAtRest /\ CacheEmpty /\ AgentAtRest
    /\ completion = NoCompletion /\ lastUpdate = NoUpdate /\ fnCall = NoCall
SpecSearch == InitSearch /\ [][SearchNext]_vars

\* summarization tasks over histories of up to MaxSnapshot messages
InitWindow == WindowInit /\ FileAtRest /\ CacheEmpty /\ VecAtRest /\ AuxAtRest
SpecWindow == InitWindow /\ [][WindowNext]_vars

\* one call of extract_user_observations
InitExtract ==
    /\ ExtractInit /\ FileAtRest /\ CacheEmpty /\ VecAtRest /\ AgentAtRest
    /\ completion = NoCompletion /\ lastSearch = NoSearch /\ lastUpdate = NoUpdate
SpecExtract == InitExtract /\ [][ExtractNext]_vars

\* one derivation of a namespace
InitNamespace ==
    /\ NamespaceInit /\ FileAtRest /\ CacheEmpty /\ VecAtRest /\ AgentAtRest
    /\ completion = NoCompletion /\ lastSearch = NoSearch /\ lastUpdate = NoUpdate
SpecNamespace == InitNamespace /\ [][NamespaceNext]_vars

\* adds on a database that may return an error at any statement
InitAddFault == VecInit /\ CacheEmpty /\ FileAtRest /\ AgentAtRest /\ AuxAtRest
SpecAddFault == InitAddFault /\ [][AddFaultNext]_vars

\* updates and deletes of two stored rows, from concurrent tasks
InitUpdate ==
    /\ UpdateInit /\ FileAtRest /\ CacheEmpty /\ AgentAtRest
    /\ completion = NoCompletion /\ lastSearch = NoSearch /\ fnCall = NoCall
SpecUpdate == InitUpdate /\ [][UpdateNext]_vars

\* the ranking scenario
InitRank ==
    /\ RankInit /\ FileAtRest /\ CacheEmpty /\ AgentAtRest
    /\ completion = NoCompletion /\ lastUpdate = NoUpdate /\ fnCall = NoCall
SpecRank == InitRank /\ [][RankNext]_vars

\* turns of three sessions on stores in use
InitRecall ==
    /\ RecallInit /\ CacheEmpty /\ AuxAtRest
    /\ fileLock = NoHolder /\ writer = [w \in Writers |-> WriterIdle]
SpecRecall == InitRecall /\ [][RecallNext]_vars

\* the agent loop with every spawned turn scheduled: the tokio runtime polls
\* every ready task, the permits come back when turns end and the session
\* lock is granted once its holder has returned
TurnFairness ==
    \A i \in Msgs :
        /\ WF_vars(Spawn(i))
        /\ WF_vars(TurnLock(i))
        /\ WF_vars(\E clientOk \in BOOLEAN, dbOk \in BOOLEAN : TurnPrompt(i, clientOk, dbOk))
        /\ WF_vars(\E outcome \in LlmOutcomes : TurnComplete(i, outcome))
        /\ WF_vars(TurnPublish(i))
SpecAgentLive == InitAgent /\ [][AgentNext]_vars /\ TurnFairness


\* concurrent embeds on a cache that is empty, one below capacity or full
InitEmbed ==
    /\ EmbedInit /\ FileAtRest /\ VecAtRest /\ AgentAtRest
    /\ completion = NoCompletion /\ lastSearch = NoSearch /\ lastUpdate = NoUpdate
SpecEmbed == InitEmbed /\ [][EmbedNext]_vars

\* searches of a namespace of MAX_SEARCH_ROWS + 2 rows
InitLimit ==
    /\ LimitInit /\ CacheEmpty /\ FileAtRest /\ AgentAtRest
    /\ completion = NoCompletion /\ lastUpdate = NoUpdate /\ fnCall = NoCall
SpecLimit == InitLimit /\ [][LimitNext]_vars

\* one call of memory_search
InitTool ==
    /\ ToolInit /\ CacheEmpty /\ AgentAtRest
    /\ completion = NoCompletion /\ lastSearch = NoSearch /\ lastUpdate = NoUpdate
SpecTool == InitTool /\ [][ToolNext]_vars
====
